---- MODULE Spec2Model ----
(***************************************************************************)
(* A state-machine model of the WebSocket endpoint of tungstenite-rs       *)
(* (src/protocol/mod.rs): the connection state, the incomplete message,    *)
(* the send queue, the out-of-band pong slot, and the operations           *)
(* read_message, write_message, close with their private helpers           *)
(* read_message_frame, do_close, do_ping, do_pong, send_pending and        *)
(* send_one_frame.                                                         *)
(*                                                                         *)
(* The frame type, the frame socket, the close codes and the message       *)
(* assembler live in modules of the crate that are not part of src/        *)
(* (protocol/frame, protocol/message); the few operations of theirs that   *)
(* the endpoint calls are modelled from the specification and are marked   *)
(* "(frame module)" or "(message module)" below.                           *)
(***************************************************************************)
EXTENDS Integers, Sequences, FiniteSets, TLC

VARIABLES
    role,        \* WebSocket.role: "Server" or "Client"
    state,       \* WebSocket.state: "Active", "ClosedByUs", "ClosedByPeer"
    incomplete,  \* WebSocket.incomplete: None or an IncompleteMessage
    send_queue,  \* WebSocket.send_queue: FIFO of frames
    pong,        \* WebSocket.pong: None or the one pending Pong frame
    pc,          \* position of the caller: "idle", or inside read_message
    sent,        \* frames handed to the socket and written by the latest call
    wrote,       \* history: enqueue numbers of the queued frames written so far
    enq,         \* history: number of frames enqueued so far
    pings,       \* history: the Pings processed since the last send_pending:
                 \* how many (n) and the payload of the latest (data)
    asm,         \* history: the fragments of the message arriving, as the
                 \* peer sent them: kind, parts, and whether a control frame
                 \* came in between (ctl)
    pre,         \* history: the endpoint's fields before the latest operation
    last,        \* history: the latest operation, its input and its result
    ext,         \* the DeflateExt of the connection
    http_response, \* the handshake response the server is building (its headers)
    xlast,       \* history: the latest operation of the extension, its input,
                 \* its result and the extension before it (pre)
    peer,        \* the DeflateExt of the other end of the connection
    wire,        \* None or the data frame on its way to the other end
    trip,        \* the build of the crate, and history of the frames that
                 \* went from ext to peer
    codec        \* the locals of a run of Deflator::compress or of
                 \* Inflator::decompress

\* The endpoint and its history.
wsVars == <<role, state, incomplete, send_queue, pong, pc, sent, wrote, enq, pings, asm,
            pre, last>>

\* The extension, the response and their history.
extVars == <<ext, http_response, xlast>>

\* The other end and the frames on their way to it.
tripVars == <<peer, wire, trip>>

vars == <<wsVars, extVars, tripVars, codec>>

----------------------------------------------------------------------------
(* Bounds of the model.                                                    *)

\* Frames that write_message may enqueue over the life of an endpoint.
MaxWrites == 2

\* Pings an endpoint may process between two runs of send_pending.
MaxPings == 3

\* Parameters in one Sec-WebSocket-Extensions header value.
MaxParams == 3

\* Frames the extension may hold in its fragment list.
MaxFragments == 3

(* Program constants.                                                      *)

\* "All control frames MUST have a payload length of 125 bytes or less".
MaxControlPayload == 125

\* Option values: None is the empty sequence and Some(x) is <<x>>.
None == <<>>

Some(x) == <<x>>

Roles == {"Server", "Client"}

DataOps == {"Continue", "Text", "Binary", "DataReserved"}

ControlOps == {"Close", "Ping", "Pong", "CtlReserved"}

IsControl(opcode) == opcode \in ControlOps

\* The bytes of the parts, one after the other.
RECURSIVE Concat_Reversed(_)
Concat_Reversed(parts) ==
    IF parts = <<>> THEN <<>> ELSE Concat_Reversed(Tail(parts)) \o Head(parts)

RECURSIVE Concat(_)
Concat(parts) ==
    IF parts = <<>> THEN <<>> ELSE parts[1] \o Concat(Tail(parts))

----------------------------------------------------------------------------
(* Frames (frame module).  mask is <<>> for an unmasked frame and the      *)
(* 4-byte key otherwise; a received masked frame carries its payload as    *)
(* it was on the wire, that is XOR-ed with the key.  seq is history: the   *)
(* enqueue number of a queued frame, 0 for every other frame.              *)

Frame(fin, opcode, payload) ==
    [fin |-> fin, rsv1 |-> FALSE, rsv2 |-> FALSE, rsv3 |-> FALSE,
     opcode |-> opcode, mask |-> <<>>, payload |-> payload, seq |-> 0]

is_masked(frame) == frame.mask # <<>>

RECURSIVE XorBits(_, _, _)
XorBits(a, b, n) ==
    IF n = 0 THEN 0
    ELSE (((a % 2) + (b % 2)) % 2) + 2 * XorBits(a \div 2, b \div 2, n - 1)

\* XOR of two bytes.
Xor8(a, b) == XorBits(a, b, 8)

\* "XOR each payload byte i with mask_key[i mod 4]" (i counted from 0).
apply_mask(payload, key) ==
    [i \in 1..Len(payload) |-> Xor8(payload[i], key[((i - 1) % 4) + 1])]

\* Frame::remove_mask: unmask the payload in place and clear the mask.
remove_mask(frame) ==
    [frame EXCEPT !.payload = apply_mask(frame.payload, frame.mask), !.mask = <<>>]

\* Frame::set_mask: give the frame a freshly generated key.
set_mask(frame, key) == [frame EXCEPT !.mask = key]

\* Frame::message(data, opcode, fin)
Frame_message(data, opcode, fin) == Frame(fin, opcode, data)

\* Frame::pong(data)
Frame_pong(data) == Frame(TRUE, "Pong", data)

\* The two status-code bytes of a Close body, big-endian.
CodeBytes(code) == <<code \div 256, (code % 256)>>

\* Frame::close(msg): no body for None, else the code followed by the reason.
Frame_close(msg) ==
    IF msg = None THEN Frame(TRUE, "Close", <<>>)
    ELSE Frame(TRUE, "Close", CodeBytes(msg[1].code) \o msg[1].reason)

\* CloseCode::is_allowed: 1000-1011 and 3000-4999 without 1004, 1005, 1006.
is_allowed(code) ==
    /\ (code \in 1000..1011) \/ (code \in 3000..4999)
    /\ code \notin {1004, 1005, 1006}

CloseNormal == 1000

CloseProtocol == 1002

\* "Protocol violation" as bytes.
ProtocolViolationText ==
    <<80, 114, 111, 116, 111, 99, 111, 108, 32, 118, 105, 111, 108, 97, 116, 105, 111, 110>>

----------------------------------------------------------------------------
(* Results of the operations.                                              *)

Ok == [tag |-> "Ok"]

OkNone == [tag |-> "OkNone"]

OkMessage(kind, data) == [tag |-> "Message", kind |-> kind, data |-> data]

ErrProtocol(msg) == [tag |-> "Err", kind |-> "Protocol", msg |-> msg]

ErrIo == [tag |-> "Err", kind |-> "Io", msg |-> "transport"]

\* What socket.read_frame() yields: an error of the transport, or Ok with
\* Some(frame) or with None at the end of the stream.
ReadErr == [err |-> TRUE, frame |-> None]

ReadEof == [err |-> FALSE, frame |-> None]

ReadFrame(frame) == [err |-> FALSE, frame |-> Some(frame)]

ErrUtf8 == [tag |-> "Err", kind |-> "Utf8", msg |-> "invalid utf-8"]

IsErr(res) == res.tag = "Err"

IsProtocolErr(res) == res.tag = "Err" /\ res.kind = "Protocol"

----------------------------------------------------------------------------
(* The message assembler (message module).                                 *)

\* A continuation byte of a UTF-8 sequence.
IsCont(b) == b \in 128..191

\* The length of the UTF-8 sequence a byte starts; 0 for a byte that starts none.
Utf8Len(x) ==
    IF x < 128 THEN 1
    ELSE IF x \in 194..223 THEN 2
    ELSE IF x \in 224..239 THEN 3
    ELSE IF x \in 240..244 THEN 4
    ELSE 0

\* Whether a byte sequence is well-formed UTF-8: every lead byte is followed
\* by its continuation bytes (no overlong form, no surrogate, nothing above
\* U+10FFFF) and every continuation byte belongs to a lead byte.
IsUtf8(b) ==
    \A i \in 1..Len(b) :
        IF IsCont(b[i])
        THEN \E d \in 1..3 :
                /\ i - d >= 1
                /\ Utf8Len(b[i - d]) > d
                /\ \A m \in (i - d + 1)..(i - 1) : IsCont(b[m])
        ELSE /\ Utf8Len(b[i]) >= 1
             /\ i + Utf8Len(b[i]) - 1 <= Len(b)
             /\ \A m \in (i + 1)..(i + Utf8Len(b[i]) - 1) : IsCont(b[m])
             /\ (b[i] = 224 => b[i + 1] >= 160)
             /\ (b[i] = 237 => b[i + 1] <= 159)
             /\ (b[i] = 240 => b[i + 1] >= 144)
             /\ (b[i] = 244 => b[i + 1] <= 143)

\* IncompleteMessage::new(kind)
IncompleteMessage_new(kind) == [kind |-> kind, buf |-> <<>>]

\* IncompleteMessage::extend(tail): append the bytes.
IncompleteMessage_extend(msg, data) == [msg EXCEPT !.buf = msg.buf \o data]

\* IncompleteMessage::complete(): the message, or InvalidUtf8 for bad text.
IncompleteMessage_complete(msg) ==
    IF msg.kind = "Text" /\ ~IsUtf8(msg.buf) THEN ErrUtf8
    ELSE OkMessage(msg.kind, msg.buf)

\* Frame::into_close: None for an empty body, a protocol error for a 1-byte
\* body, else the status code and the reason, which must be UTF-8 text.
into_close(frame) ==
    IF Len(frame.payload) = 0 THEN [res |-> Ok, close |-> None]
    ELSE IF Len(frame.payload) = 1
         THEN [res |-> ErrProtocol("Invalid close sequence"), close |-> None]
    ELSE LET reason == SubSeq(frame.payload, 3, Len(frame.payload))
         IN  IF ~IsUtf8(reason) THEN [res |-> ErrUtf8, close |-> None]
             ELSE [res |-> Ok,
                   close |-> Some([code |-> frame.payload[1] * 256 + frame.payload[2],
                                   reason |-> reason])]

----------------------------------------------------------------------------
(* The endpoint (src/protocol/mod.rs).  An endpoint value w is the record  *)
(* of the WebSocket fields plus enq, the count of frames enqueued so far.  *)

WS == [role |-> role, state |-> state, incomplete |-> incomplete,
       send_queue |-> send_queue, pong |-> pong, enq |-> enq]

\* WebSocketState::is_active
is_active(st) == st = "Active"

\* A push_front in the place of the push_back.
Enqueue_Front(w, frame) ==
    [w EXCEPT !.send_queue = <<[frame EXCEPT !.seq = w.enq + 1]>> \o w.send_queue,
              !.enq = w.enq + 1]

\* push_back on the send queue; the frame gets the next enqueue number.
Enqueue(w, frame) ==
    [w EXCEPT !.send_queue = Append(w.send_queue, [frame EXCEPT !.seq = w.enq + 1]),
              !.enq = w.enq + 1]

\* close(): the endpoint afterwards.  The result is always Ok(()).
close(w) ==
    IF w.state = "Active" THEN [w EXCEPT !.state = "ClosedByUs"]
    ELSE w

\* A do_close that answers every Close that carries a code with Normal.
CloseReply_AlwaysNormal(c) ==
    IF c # None THEN Frame_close(Some([code |-> CloseNormal, reason |-> <<>>]))
    ELSE Frame_close(None)

\* do_close: the reply to a peer's Close received while Active.
CloseReply(c) ==
    IF c # None
    THEN IF is_allowed(c[1].code)
         THEN Frame_close(Some([code |-> CloseNormal, reason |-> <<>>]))
         ELSE Frame_close(Some([code |-> CloseProtocol, reason |-> ProtocolViolationText]))
    ELSE Frame_close(None)

\* A do_close that answers a second Close of the peer as it did the first.
do_close_ReplyAgain(w, c) ==
    CASE w.state = "Active" ->
            Enqueue([w EXCEPT !.state = "ClosedByPeer"], CloseReply(c))
      [] w.state = "ClosedByPeer" -> Enqueue(w, CloseReply(c))
      [] w.state = "ClosedByUs" -> w

\* A do_close that takes the Close received after close() for the peer's
\* own closing.
do_close_PeerAfterUs(w, c) ==
    CASE w.state = "Active" ->
            Enqueue([w EXCEPT !.state = "ClosedByPeer"], CloseReply(c))
      [] w.state = "ClosedByPeer" -> w
      [] w.state = "ClosedByUs" -> [w EXCEPT !.state = "ClosedByPeer"]

\* A do_close that answers the Close received after close().
do_close_ReplyAfterUs(w, c) ==
    CASE w.state = "Active" ->
            Enqueue([w EXCEPT !.state = "ClosedByPeer"], CloseReply(c))
      [] w.state = "ClosedByPeer" -> w
      [] w.state = "ClosedByUs" -> Enqueue(w, CloseReply(c))

\* do_close: a Close frame was received.
do_close(w, c) ==
    CASE w.state = "Active" ->
            Enqueue([w EXCEPT !.state = "ClosedByPeer"], CloseReply(c))
      [] w.state = "ClosedByPeer" -> w
      [] w.state = "ClosedByUs" -> w

\* A do_ping that keeps a Pong that is already pending.
do_ping_KeepPending(w, ping) ==
    IF w.pong # None THEN w ELSE [w EXCEPT !.pong = Some(Frame_pong(ping))]

\* do_ping: the pong slot after a Ping; an older pending Pong is replaced.
do_ping(w, ping) == [w EXCEPT !.pong = Some(Frame_pong(ping))]

\* do_pong: Pongs are not checked.
do_pong(w, data) == w

\* The reserved-bits check of read_message_frame: TRUE means reject.
RsvCheck(frame) == frame.rsv1 \/ frame.rsv2 \/ frame.rsv3

\* A check by role that forgets to remove the mask on the server.
RoleCheck_NoUnmask(r, frame) ==
    IF r = "Server"
    THEN IF is_masked(frame)
         THEN [res |-> Ok, frame |-> [frame EXCEPT !.mask = <<>>]]
         ELSE [res |-> ErrProtocol("Received an unmasked frame from client"),
               frame |-> frame]
    ELSE IF is_masked(frame)
         THEN [res |-> ErrProtocol("Received a masked frame from server"),
               frame |-> frame]
         ELSE [res |-> Ok, frame |-> frame]

\* The check by role of read_message_frame: the frame to dispatch (unmasked
\* by a server), or the protocol error.
RoleCheck(r, frame) ==
    IF r = "Server"
    THEN IF is_masked(frame)
         THEN [res |-> Ok, frame |-> remove_mask(frame)]
         ELSE [res |-> ErrProtocol("Received an unmasked frame from client"),
               frame |-> frame]
    ELSE IF is_masked(frame)
         THEN [res |-> ErrProtocol("Received a masked frame from server"),
               frame |-> frame]
         ELSE [res |-> Ok, frame |-> frame]

\* A control arm that goes on answering Pings while closing.
ControlFrame_PingWhileClosing(w, frame) ==
    IF ~frame.fin THEN [res |-> ErrProtocol("Fragmented control frame"), w |-> w]
    ELSE IF Len(frame.payload) > MaxControlPayload
         THEN [res |-> ErrProtocol("Control frame too big"), w |-> w]
    ELSE IF frame.opcode = "Close"
         THEN LET c == into_close(frame)
              IN  IF IsErr(c.res) THEN [res |-> c.res, w |-> w]
                  ELSE [res |-> OkNone, w |-> do_close(w, c.close)]
    ELSE IF frame.opcode = "CtlReserved"
         THEN [res |-> ErrProtocol("Unknown control frame type"), w |-> w]
    ELSE IF frame.opcode = "Ping"
         THEN [res |-> OkNone, w |-> do_ping(w, frame.payload)]
    ELSE [res |-> OkNone, w |-> do_pong(w, frame.payload)]

\* A control arm without the limit on the payload.
ControlFrame_NoSizeCheck(w, frame) ==
    IF ~frame.fin THEN [res |-> ErrProtocol("Fragmented control frame"), w |-> w]
    ELSE IF frame.opcode = "Close"
         THEN LET c == into_close(frame)
              IN  IF IsErr(c.res) THEN [res |-> c.res, w |-> w]
                  ELSE [res |-> OkNone, w |-> do_close(w, c.close)]
    ELSE IF frame.opcode = "CtlReserved"
         THEN [res |-> ErrProtocol("Unknown control frame type"), w |-> w]
    ELSE IF ~is_active(w.state) THEN [res |-> OkNone, w |-> w]
    ELSE IF frame.opcode = "Ping"
         THEN [res |-> OkNone, w |-> do_ping(w, frame.payload)]
    ELSE [res |-> OkNone, w |-> do_pong(w, frame.payload)]

\* read_message_frame, the arm OpCode::Control.
ControlFrame(w, frame) ==
    IF ~frame.fin THEN [res |-> ErrProtocol("Fragmented control frame"), w |-> w]
    ELSE IF Len(frame.payload) > MaxControlPayload
         THEN [res |-> ErrProtocol("Control frame too big"), w |-> w]
    ELSE IF frame.opcode = "Close"
         THEN LET c == into_close(frame)
              IN  IF IsErr(c.res) THEN [res |-> c.res, w |-> w]
                  ELSE [res |-> OkNone, w |-> do_close(w, c.close)]
    ELSE IF frame.opcode = "CtlReserved"
         THEN [res |-> ErrProtocol("Unknown control frame type"), w |-> w]
    ELSE IF ~is_active(w.state) THEN [res |-> OkNone, w |-> w]
    ELSE IF frame.opcode = "Ping"
         THEN [res |-> OkNone, w |-> do_ping(w, frame.payload)]
    ELSE [res |-> OkNone, w |-> do_pong(w, frame.payload)]

\* A Continue arm that leaves the incomplete message in place when it
\* returns the completed one.
ContinueFrame_KeepIncomplete(w, frame) ==
    IF w.incomplete = None
    THEN [res |-> ErrProtocol("Continue frame but nothing to continue"), w |-> w]
    ELSE LET msg == IncompleteMessage_extend(w.incomplete[1], frame.payload)
         IN  IF frame.fin
             THEN [res |-> IncompleteMessage_complete(msg),
                   w |-> [w EXCEPT !.incomplete = Some(msg)]]
             ELSE [res |-> OkNone, w |-> [w EXCEPT !.incomplete = Some(msg)]]

\* A Continue arm that puts the new bytes in front of the bytes it has.
ContinueFrame_Prepend(w, frame) ==
    IF w.incomplete = None
    THEN [res |-> ErrProtocol("Continue frame but nothing to continue"), w |-> w]
    ELSE LET msg == [w.incomplete[1] EXCEPT !.buf = frame.payload \o w.incomplete[1].buf]
         IN  IF frame.fin
             THEN [res |-> IncompleteMessage_complete(msg),
                   w |-> [w EXCEPT !.incomplete = None]]
             ELSE [res |-> OkNone, w |-> [w EXCEPT !.incomplete = Some(msg)]]

\* read_message_frame, the arm OpData::Continue.
ContinueFrame(w, frame) ==
    IF w.incomplete = None
    THEN [res |-> ErrProtocol("Continue frame but nothing to continue"), w |-> w]
    ELSE LET msg == IncompleteMessage_extend(w.incomplete[1], frame.payload)
         IN  IF frame.fin
             THEN [res |-> IncompleteMessage_complete(msg),
                   w |-> [w EXCEPT !.incomplete = None]]
             ELSE [res |-> OkNone, w |-> [w EXCEPT !.incomplete = Some(msg)]]

\* read_message_frame, the arm OpData::Text | OpData::Binary.
StartFrame(w, frame) ==
    LET msg == IncompleteMessage_extend(IncompleteMessage_new(frame.opcode), frame.payload)
    IN  IF frame.fin
        THEN [res |-> IncompleteMessage_complete(msg), w |-> w]
        ELSE [res |-> OkNone, w |-> [w EXCEPT !.incomplete = Some(msg)]]

\* read_message_frame, the arm OpCode::Data of an Active endpoint.
DataFrame(w, frame) ==
    IF frame.opcode = "Continue" THEN ContinueFrame(w, frame)
    ELSE IF w.incomplete # None
         THEN [res |-> ErrProtocol("Received data while waiting for more fragments"),
               w |-> w]
    ELSE IF frame.opcode \in {"Text", "Binary"} THEN StartFrame(w, frame)
    ELSE [res |-> ErrProtocol("Unknown data frame type"), w |-> w]

\* A dispatch without the arm that drops data frames while closing.
Dispatch_NoDrop(w, frame) ==
    IF IsControl(frame.opcode) THEN ControlFrame(w, frame)
    ELSE DataFrame(w, frame)

\* read_message_frame, the match on the opcode.
Dispatch(w, frame) ==
    IF IsControl(frame.opcode) THEN ControlFrame(w, frame)
    ELSE IF ~is_active(w.state) THEN [res |-> OkNone, w |-> w]
    ELSE DataFrame(w, frame)

\* A read_message_frame that checks the mask before the reserved bits.
read_message_frame_RoleFirst(w, input) ==
    IF input.err THEN [res |-> ErrIo, w |-> w]
    ELSE IF input.frame = None
         THEN [res |-> ErrProtocol("Connection reset without closing handshake"),
               w |-> w]
    ELSE LET rc == RoleCheck(w.role, input.frame[1])
         IN  IF IsErr(rc.res) THEN [res |-> rc.res, w |-> w]
             ELSE IF RsvCheck(input.frame[1])
                  THEN [res |-> ErrProtocol("Reserved bits are non-zero"), w |-> w]
             ELSE Dispatch(w, rc.frame)

\* read_message_frame: input is what socket.read_frame() yields.
read_message_frame(w, input) ==
    IF input.err THEN [res |-> ErrIo, w |-> w]
    ELSE IF input.frame = None
         THEN [res |-> ErrProtocol("Connection reset without closing handshake"),
               w |-> w]
    ELSE IF RsvCheck(input.frame[1])
         THEN [res |-> ErrProtocol("Reserved bits are non-zero"), w |-> w]
    ELSE LET rc == RoleCheck(w.role, input.frame[1])
         IN  IF IsErr(rc.res) THEN [res |-> rc.res, w |-> w]
             ELSE Dispatch(w, rc.frame)

\* A send_one_frame without the set_mask of the client.
send_one_frame_NoMask(r, frame, key) == frame

\* send_one_frame: the frame handed to socket.write_frame.
send_one_frame(r, frame, key) ==
    IF r = "Server" THEN frame ELSE set_mask(frame, key)

\* A send_pending that drains the queue before it sends the Pong.
Pending_QueueFirst(w) == w.send_queue \o w.pong

\* send_pending: the frames it takes, in the order it takes them.
Pending(w) == w.pong \o w.send_queue

\* A send_pending that writes the Pong of the slot and leaves the queue.
send_pending_LeaveQueue(w, nOk, keys) ==
    LET p == Pending(w)
        n == IF nOk < Len(w.pong) THEN nOk ELSE Len(w.pong)
    IN  [res  |-> IF nOk = Len(p) THEN Ok ELSE ErrIo,
         sent |-> [i \in 1..n |-> send_one_frame(w.role, p[i], keys[i])],
         w    |-> [w EXCEPT !.pong = None]]

\* send_pending: nOk writes succeed; if frames are left, the next write
\* fails and the call returns its error.  keys are the masks generated.
send_pending(w, nOk, keys) ==
    LET p == Pending(w)
    IN  [res  |-> IF nOk = Len(p) THEN Ok ELSE ErrIo,
         sent |-> [i \in 1..nOk |-> send_one_frame(w.role, p[i], keys[i])],
         w    |-> [w EXCEPT !.pong = None,
                            !.send_queue = SubSeq(p, nOk + 2, Len(p))]]

\* A write_message that sends every message as text.
MessageFrame_AlwaysText(m) == Frame_message(m.data, "Text", TRUE)

\* write_message: the frame for a message.
MessageFrame(m) == Frame_message(m.data, m.kind, TRUE)

----------------------------------------------------------------------------
(* The permessage-deflate extension (src/extensions/deflate.rs).           *)

\* PlainTextExt::rsv1 (extensions module): the plain extension claims no bit.
PlainTextExt_rsv1 == FALSE

\* DeflateExt::rsv1: whether the extension claims the rsv1 bit.
DeflateExt_rsv1(enabled) == IF enabled THEN TRUE ELSE PlainTextExt_rsv1

\* Results of the extension's operations.
ErrNegotiation(msg) == [tag |-> "Err", kind |-> "Negotiation", msg |-> msg]

ErrDeflate(msg) == [tag |-> "Err", kind |-> "Deflate", msg |-> msg]

ErrInflate(msg) == [tag |-> "Err", kind |-> "Inflate", msg |-> msg]

\* A panic!() of the code.
Panic(msg) == [tag |-> "Panic", kind |-> "Panic", msg |-> msg]

(* Header values.  A header value is text or not (to_str fails on bytes    *)
(* that are not visible ASCII); a text is the sequence of its parameters,  *)
(* the pieces between the ';', trimmed.  A parameter is the known word its *)
(* text begins with (name; any other text is the name "unknown"), whether  *)
(* more characters follow the word before the first '=' (more), and the    *)
(* piece after the first '=' if there is one (value, a sequence of         *)
(* character codes).                                                       *)

Param(name, value) == [name |-> name, more |-> FALSE, value |-> value]

\* param.trim() == word
ParamIs(param, word) == param.name = word /\ ~param.more /\ param.value = None

\* param.starts_with(word)
ParamStartsWith(param, word) == param.name = word

\* str::trim, for the blank.
RECURSIVE TrimStart(_)
TrimStart(str) ==
    IF str # <<>> /\ str[1] = 32 THEN TrimStart(Tail(str)) ELSE str

RECURSIVE TrimEnd(_)
TrimEnd(str) ==
    IF str # <<>> /\ str[Len(str)] = 32 THEN TrimEnd(SubSeq(str, 1, Len(str) - 1)) ELSE str

Trim(str) == TrimEnd(TrimStart(str))

\* The number a sequence of decimal digits writes.
RECURSIVE DecimalValue(_)
DecimalValue(str) ==
    IF str = <<>> THEN 0
    ELSE 10 * DecimalValue(SubSeq(str, 1, Len(str) - 1)) + (str[Len(str)] - 48)

\* str::parse::<u8>: Some(n) for Ok(n), None for an error (no digit, a
\* character that is not a digit, a number above 255).
ParseU8(str) ==
    IF str = <<>> \/ \E i \in 1..Len(str) : str[i] \notin 48..57 THEN None
    ELSE IF Len(str) > 3 \/ DecimalValue(str) > 255 THEN None
    ELSE Some(DecimalValue(str))

\* format!("{}", n) for a number below 100.
FormatU8(n) == IF n < 10 THEN <<48 + n>> ELSE <<48 + (n \div 10), 48 + (n % 10)>>

\* Whether a header value under construction mentions a word.
Contains(res_ext, word) == \E i \in 1..Len(res_ext) : res_ext[i].name = word

(* The DEFLATE primitive (flate2), raw streams with a SYNC flush.  The     *)
(* streams are stood for by a code that keeps what makes them matter here: *)
(* a block starts with a byte that tells its type, every byte of data is   *)
(* coded by its place in the stream since the last reset (the context that *)
(* is taken over from message to message), the output of a SYNC flush ends *)
(* with 00 00 FF FF, and a block of a reserved type is an error of the     *)
(* decoder.                                                                *)

Trailer == <<0, 0, 255, 255>>

\* Compress::new_with_window_bits / Compress::new (window of 15 bits)
Compress_new(bits) == [bits |-> bits, hist |-> 0]

\* Decompress::new_with_window_bits / Decompress::new (window of 15 bits)
Decompress_new(bits) == [bits |-> bits, hist |-> 0]

\* The code of the byte at place i of the input for a stream at hist.
Shift(hist, i) == 1 + ((hist + i - 1) % 2)

\* The first byte of a block with a fixed code.
BlockHeader == <<2>>

\* Compress::compress_vec with FlushCompress::Sync on the whole input.
Deflate(stream, input) ==
    [out |-> BlockHeader
                \o [i \in 1..Len(input) |-> (input[i] + Shift(stream.hist, i)) % 256]
                \o Trailer,
     stream |-> [stream EXCEPT !.hist = (stream.hist + Len(input)) % 2]]

\* The input of the decoder without the mark of the SYNC flush at its end.
Body(input) ==
    IF Len(input) >= 4 /\ SubSeq(input, Len(input) - 3, Len(input)) = Trailer
    THEN SubSeq(input, 1, Len(input) - 4)
    ELSE input

\* Decompress::decompress with FlushDecompress::Sync on the whole input:
\* err for a block of a reserved type (first byte with the bits 11x).
Inflate(stream, input) ==
    LET body == Body(input)
        data == IF body = <<>> THEN <<>> ELSE Tail(body)
    IN  IF body # <<>> /\ (body[1] % 8) \in {6, 7}
        THEN [err |-> TRUE, out |-> <<>>, stream |-> stream]
        ELSE [err |-> FALSE,
              out |-> [i \in 1..Len(data) |-> (data[i] + 256 - Shift(stream.hist, i)) % 256],
              stream |-> [stream EXCEPT !.hist = (stream.hist + Len(data)) % 2]]

\* Inflator::new / Deflator::new
Inflator_new == Decompress_new(15)

Deflator_new == Compress_new(15)

(* The loops of Deflator::compress and Inflator::decompress.  A loop value  *)
(* l holds the locals: read_buff, the output vector (its bytes and its     *)
(* capacity), n = input.len(), done once the loop has returned, and pend,  *)
(* the bytes the primitive has made and not yet handed out.                *)

\* Vec::reserve(additional) on a vector of len bytes: the capacity after it,
\* the least the call promises.
Reserve_Nothing(len, capacity, additional) == capacity

Reserve(len, capacity, additional) ==
    IF capacity - len >= additional THEN capacity ELSE len + additional

\* The locals before the first turn.
NewLoop(input, output, capacity) ==
    [read_buff |-> input, n |-> Len(input), output |-> output, capacity |-> capacity,
     pend |-> <<>>, done |-> FALSE]

\* The capacity of the output after the head of a turn:
\* if output_size == output.capacity() { output.reserve(input.len()) }
Grown(l) ==
    IF Len(l.output) = l.capacity THEN Reserve(Len(l.output), l.capacity, l.n)
    ELSE l.capacity

\* The room the primitive is given in a turn.
Space(l) == Grown(l) - Len(l.output)

\* A call of the primitive that takes the whole of read_buff, for which it
\* makes the bytes gen, and hands out as many bytes as there is room for;
\* without room it does nothing (Status::BufError).
Call(l, gen) ==
    LET all == l.pend \o gen
        m == IF Space(l) < Len(all) THEN Space(l) ELSE Len(all)
    IN  IF Space(l) = 0 THEN [consumed |-> 0, out |-> <<>>, pend |-> l.pend]
        ELSE [consumed |-> Len(l.read_buff),
              out |-> SubSeq(all, 1, m),
              pend |-> SubSeq(all, m + 1, Len(all))]

\* The rest of a turn after the call c of the primitive: read_buff loses
\* what was consumed, the output gains what was made, and the loop returns
\* if nothing was made and read_buff is empty.
Turn_ReturnOnEmptyInput(l, c) ==
    LET read_buff == SubSeq(l.read_buff, c.consumed + 1, Len(l.read_buff))
    IN  [l EXCEPT !.capacity = Grown(l),
                  !.read_buff = read_buff,
                  !.output = @ \o c.out,
                  !.pend = c.pend,
                  !.done = (read_buff = <<>>)]

Turn(l, c) ==
    LET read_buff == SubSeq(l.read_buff, c.consumed + 1, Len(l.read_buff))
    IN  [l EXCEPT !.capacity = Grown(l),
                  !.read_buff = read_buff,
                  !.output = @ \o c.out,
                  !.pend = c.pend,
                  !.done = (c.out = <<>> /\ read_buff = <<>>)]

\* The loop run to its return with the primitive of this model, which
\* makes gen of the whole input.
RECURSIVE Loop(_, _)
Loop(l, gen) ==
    IF l.done THEN l
    ELSE Loop(Turn(l, Call(l, IF l.read_buff = <<>> THEN <<>> ELSE gen)), gen)

\* Deflator::compress(input, output) with an output vector that holds
\* nothing and has the given capacity.
Deflator_compress(deflator, input, capacity) ==
    LET d == Deflate(deflator, input)
        l == Loop(NewLoop(input, <<>>, capacity), d.out)
    IN  [out |-> l.output, stream |-> IF input = <<>> THEN deflator ELSE d.stream]

\* Deflator::reset
Deflator_reset(deflator) == [deflator EXCEPT !.hist = 0]

\* Inflator::decompress(input, output) with an output vector that holds
\* nothing and has the given capacity; err is the DecompressError of the
\* primitive.
Inflator_decompress(inflator, input, capacity) ==
    LET d == Inflate(inflator, input)
        l == Loop(NewLoop(input, <<>>, capacity), d.out)
    IN  IF d.err THEN d ELSE [err |-> FALSE, out |-> l.output, stream |-> d.stream]

\* Inflator::reset
Inflator_reset(inflator) == [inflator EXCEPT !.hist = 0]

(* DeflateExt.                                                             *)

\* impl Default for DeflateConfig (max_message_size and compression_level
\* play no part in the model).
DeflateConfig_default ==
    [max_window_bits |-> 15,
     request_no_context_takeover |-> FALSE,
     accept_no_context_takeover |-> TRUE,
     fragments_capacity |-> 10,
     fragments_grow |-> TRUE,
     compress_reset |-> FALSE,
     decompress_reset |-> FALSE]

\* PlainTextExt::new (extensions module): the plain assembler, idle.
PlainTextExt_new == [incomplete |-> None]

\* DeflateExt::new
DeflateExt_new(config) ==
    [enabled |-> FALSE,
     config |-> config,
     fragments |-> <<>>,
     inflator |-> Inflator_new,
     deflator |-> Deflator_new,
     uncompressed_extension |-> PlainTextExt_new]

\* The names of the response headers the extension touches.
SEC_WEBSOCKET_EXTENSIONS == "sec-websocket-extensions"

EXT_NAME == "permessage-deflate"

\* A response without these headers.
Response_new == [h \in {SEC_WEBSOCKET_EXTENSIONS, EXT_NAME} |-> None]

\* DeflateExt::complete_message
complete_message(data, opcode) ==
    IF opcode \notin {"Text", "Binary"} THEN Panic("Bug: message is not text nor binary")
    ELSE IncompleteMessage_complete(
             IncompleteMessage_extend(IncompleteMessage_new(opcode), data))

\* DeflateExt::parse_window_parameter on the piece after the '=' (None if
\* there is no '='): err, or bits = Some(n) for a window to set up.
parse_window_parameter(config, value) ==
    IF value = None THEN [err |-> FALSE, bits |-> None]
    ELSE LET parsed == ParseU8(Trim(value[1]))
         IN  IF parsed = None THEN [err |-> TRUE, bits |-> None]
             ELSE LET window_bits == IF parsed[1] = 8 THEN 9 ELSE parsed[1]
                  IN  IF window_bits >= 9 /\ window_bits <= 15
                      THEN IF window_bits # config.max_window_bits
                           THEN [err |-> FALSE, bits |-> Some(window_bits)]
                           ELSE [err |-> FALSE, bits |-> None]
                      ELSE [err |-> TRUE, bits |-> None]

\* DeflateExt::decline on the extension x and the response.
decline(x, response) ==
    [x |-> [x EXCEPT !.enabled = FALSE],
     response |-> [response EXCEPT ![EXT_NAME] = None]]


\* on_make_request: the request with the client's offer appended to the
\* values of its Sec-WebSocket-Extensions headers.  The offer is
\* "permessage-deflate", then "; client_max_window_bits={}; 
\* server_max_window_bits={}" for a window below 15 bits or
\* "; client_max_window_bits", then "; server_no_context_takeover" if
\* request_no_context_takeover is set.  self is not changed.
on_make_request(x, request) ==
    LET max == x.config.max_window_bits
        windows == IF max < 15
                   THEN <<Param("client_max_window_bits", Some(FormatU8(max))),
                          Param("server_max_window_bits", Some(FormatU8(max)))>>
                   ELSE <<Param("client_max_window_bits", None)>>
        takeover == IF x.config.request_no_context_takeover
                    THEN <<Param("server_no_context_takeover", None)>>
                    ELSE <<>>
    IN  Append(request,
               [text |-> TRUE,
                params |-> <<Param("permessage-deflate", None)>> \o windows \o takeover])

\* decline inside the loop over the parameters of an offer.
Declined(st) ==
    LET d == decline(st.x, st.response)
    IN  [st EXCEPT !.x = d.x, !.response = d.response]

\* on_receive_request, one turn of the loop over the parameters of a header
\* value.  st holds self (x), the response and the locals res_ext,
\* s_takeover, c_takeover, s_max and c_max.
RequestParam(st, param) ==
    LET max == st.x.config.max_window_bits
        own == Param("client_max_window_bits", Some(FormatU8(max)))
    IN  IF ParamIs(param, "permessage-deflate")
        THEN [st EXCEPT !.res_ext = Append(@, Param("permessage-deflate", None))]
        ELSE IF ParamIs(param, "server_no_context_takeover")
        THEN IF st.s_takeover THEN Declined(st)
             ELSE IF st.x.config.accept_no_context_takeover
                  THEN [st EXCEPT !.s_takeover = TRUE,
                                  !.x.config.compress_reset = TRUE,
                                  !.res_ext = Append(@, Param("server_no_context_takeover", None))]
                  ELSE [st EXCEPT !.s_takeover = TRUE]
        ELSE IF ParamIs(param, "client_no_context_takeover")
        THEN IF st.c_takeover THEN Declined(st)
             ELSE [st EXCEPT !.c_takeover = TRUE,
                             !.x.config.decompress_reset = TRUE,
                             !.res_ext = Append(@, Param("client_no_context_takeover", None))]
        ELSE IF ParamStartsWith(param, "server_max_window_bits")
        THEN IF st.s_max THEN Declined(st)
             ELSE LET st1 == [st EXCEPT !.s_max = TRUE]
                  IN  IF param.value = None THEN st1
                      ELSE LET parsed == ParseU8(Trim(param.value[1]))
                           IN  IF parsed = None THEN Declined(st1)
                               ELSE IF parsed[1] >= 9 /\ parsed[1] <= 15
                               THEN IF parsed[1] < max
                                    THEN [st1 EXCEPT !.x.deflator = Compress_new(parsed[1]),
                                                     !.res_ext = Append(@, param)]
                                    ELSE st1
                               ELSE Declined(st1)
        ELSE IF ParamStartsWith(param, "client_max_window_bits")
        THEN IF st.c_max THEN Declined(st)
             ELSE LET st1 == [st EXCEPT !.c_max = TRUE]
                      PushOwn(t) == [t EXCEPT !.res_ext = Append(@, own)]
                  IN  IF param.value = None THEN PushOwn(st1)
                      ELSE LET parsed == ParseU8(Trim(param.value[1]))
                           IN  IF parsed = None THEN PushOwn(Declined(st1))
                               ELSE IF parsed[1] >= 9 /\ parsed[1] <= 15
                               THEN IF parsed[1] < max
                                    THEN [st1 EXCEPT !.x.inflator = Decompress_new(parsed[1]),
                                                     !.res_ext = Append(@, param)]
                                    ELSE PushOwn(st1)
                               ELSE PushOwn(Declined(st1))
        ELSE Declined(st)

\* on_receive_request, the loop over the parameters of a header value.
RECURSIVE RequestParams(_, _)
RequestParams(st, params) ==
    IF params = <<>> THEN st
    ELSE RequestParams(RequestParam(st, Head(params)), Tail(params))

\* RequestDefaults that asks the client for no context takeover and does
\* not set the server's own decompress_reset.
RequestDefaults_AskOnly(st) ==
    LET max == st.x.config.max_window_bits
        st1 == IF /\ ~Contains(st.res_ext, "client_no_context_takeover")
                  /\ st.x.config.request_no_context_takeover
               THEN [st EXCEPT !.res_ext = Append(@, Param("client_no_context_takeover", None))]
               ELSE st
    IN  IF ~Contains(st1.res_ext, "server_max_window_bits")
        THEN [st1 EXCEPT !.res_ext =
                            Append(@, Param("server_max_window_bits", Some(FormatU8(max))))]
        ELSE st1

\* on_receive_request, what follows the loop over the parameters: the
\* parameters the server adds of its own.
RequestDefaults(st) ==
    LET max == st.x.config.max_window_bits
        st1 == IF /\ ~Contains(st.res_ext, "client_no_context_takeover")
                  /\ st.x.config.request_no_context_takeover
               THEN [st EXCEPT !.x.config.decompress_reset = TRUE,
                               !.res_ext = Append(@, Param("client_no_context_takeover", None))]
               ELSE st
    IN  IF ~Contains(st1.res_ext, "server_max_window_bits")
        THEN [st1 EXCEPT !.res_ext =
                            Append(@, Param("server_max_window_bits", Some(FormatU8(max))))]
        ELSE st1

\* on_receive_request: request is the sequence of the values of the
\* Sec-WebSocket-Extensions headers of the request.
RECURSIVE on_receive_request(_, _, _)
on_receive_request(x, request, response) ==
    IF request = <<>>
    THEN [res |-> Ok, x |-> decline(x, response).x, response |-> decline(x, response).response]
    ELSE IF ~Head(request).text
    THEN [res |-> ErrNegotiation("Failed to parse header"),
          x |-> [x EXCEPT !.enabled = FALSE], response |-> response]
    ELSE LET st0 == [x |-> x, response |-> response, res_ext |-> <<>>,
                     s_takeover |-> FALSE, c_takeover |-> FALSE,
                     s_max |-> FALSE, c_max |-> FALSE]
             st == RequestDefaults(RequestParams(st0, Head(request).params))
         IN  IF /\ ~Contains(st.res_ext, "client_max_window_bits")
                /\ st.x.config.max_window_bits < 15
             THEN on_receive_request(st.x, Tail(request), st.response)
             ELSE [res |-> Ok,
                   x |-> [st.x EXCEPT !.enabled = TRUE],
                   response |-> [st.response EXCEPT
                                    ![SEC_WEBSOCKET_EXTENSIONS] = Some(st.res_ext)]]

\* on_response, one turn of the loop over the parameters.  st holds self
\* (x), the five flags and err, the error returned if one was.
ResponseParam(st, param) ==
    IF ParamIs(param, "permessage-deflate")
    THEN IF st.extension_name
         THEN [st EXCEPT !.err = Some(ErrNegotiation("Duplicate extension name"))]
         ELSE [st EXCEPT !.x.enabled = TRUE, !.extension_name = TRUE]
    ELSE IF ParamIs(param, "server_no_context_takeover")
    THEN IF st.server_takeover
         THEN [st EXCEPT !.err = Some(ErrNegotiation("Duplicate extension parameter"))]
         ELSE [st EXCEPT !.server_takeover = TRUE, !.x.config.decompress_reset = TRUE]
    ELSE IF ParamIs(param, "client_no_context_takeover")
    THEN IF st.client_takeover
         THEN [st EXCEPT !.err = Some(ErrNegotiation("Duplicate extension parameter"))]
         ELSE IF st.x.config.accept_no_context_takeover
              THEN [st EXCEPT !.client_takeover = TRUE, !.x.config.compress_reset = TRUE]
              ELSE [st EXCEPT !.client_takeover = TRUE,
                              !.err = Some(ErrNegotiation("The client requires context takeover."))]
    ELSE IF ParamStartsWith(param, "server_max_window_bits")
    THEN IF st.server_max_window_bits
         THEN [st EXCEPT !.err = Some(ErrNegotiation("Duplicate extension parameter"))]
         ELSE LET w == parse_window_parameter(st.x.config, param.value)
              IN  IF w.err
                  THEN [st EXCEPT !.server_max_window_bits = TRUE,
                                  !.err = Some(ErrNegotiation("server_max_window_bits parameter error"))]
                  ELSE IF w.bits # None
                  THEN [st EXCEPT !.server_max_window_bits = TRUE,
                                  !.x.deflator = Compress_new(w.bits[1])]
                  ELSE [st EXCEPT !.server_max_window_bits = TRUE]
    ELSE IF ParamStartsWith(param, "client_max_window_bits")
    THEN IF st.client_max_window_bits
         THEN [st EXCEPT !.err = Some(ErrNegotiation("Duplicate extension parameter"))]
         ELSE LET w == parse_window_parameter(st.x.config, param.value)
              IN  IF w.err
                  THEN [st EXCEPT !.client_max_window_bits = TRUE,
                                  !.err = Some(ErrNegotiation("client_max_window_bits parameter error"))]
                  ELSE IF w.bits # None
                  THEN [st EXCEPT !.client_max_window_bits = TRUE,
                                  !.x.inflator = Decompress_new(w.bits[1])]
                  ELSE [st EXCEPT !.client_max_window_bits = TRUE]
    ELSE [st EXCEPT !.err = Some(ErrNegotiation("Unknown permessage-deflate parameter"))]

\* on_response, the loop over the parameters of a header value, left at
\* the first error.
RECURSIVE ResponseParams(_, _)
ResponseParams(st, params) ==
    IF params = <<>> \/ st.err # None THEN st
    ELSE ResponseParams(ResponseParam(st, Head(params)), Tail(params))

\* on_response, the loop over the header values.
RECURSIVE ResponseHeaders(_, _)
ResponseHeaders(st, headers) ==
    IF headers = <<>> \/ st.err # None THEN st
    ELSE IF ~Head(headers).text
    THEN [st EXCEPT !.x.enabled = FALSE,
                    !.err = Some(ErrNegotiation("Failed to parse extension parameter"))]
    ELSE ResponseHeaders(ResponseParams(st, Head(headers).params), Tail(headers))

\* on_response that leaves the configuration as it found it.
on_response_KeepConfig(x, headers) ==
    LET st0 == [x |-> x, extension_name |-> FALSE,
                server_takeover |-> FALSE, client_takeover |-> FALSE,
                server_max_window_bits |-> FALSE, client_max_window_bits |-> FALSE,
                err |-> None]
        st == ResponseHeaders(st0, headers)
    IN  [res |-> IF st.err # None THEN st.err[1] ELSE Ok,
         x |-> [st.x EXCEPT !.config = x.config]]

\* on_response: headers is the sequence of the values of the
\* Sec-WebSocket-Extensions headers of the response.
on_response(x, headers) ==
    LET st0 == [x |-> x, extension_name |-> FALSE,
                server_takeover |-> FALSE, client_takeover |-> FALSE,
                server_max_window_bits |-> FALSE, client_max_window_bits |-> FALSE,
                err |-> None]
        st == ResponseHeaders(st0, headers)
    IN  [res |-> IF st.err # None THEN st.err[1] ELSE Ok, x |-> st.x]

\* The builds of the crate: with and without the checks of overflow.
Builds == {"debug", "release"}

\* compressed.truncate(len - 4) where the subtraction is not checked: for a
\* len below 4 the difference wraps to 2^64 - 4 + len, which is more than
\* the vector holds, and Vec::truncate then does nothing.
TruncateLast4(vec) ==
    IF Len(vec) >= 4 THEN SubSeq(vec, 1, Len(vec) - 4) ELSE vec

\* on_send_frame that takes its payload from the encoder as it is.
on_send_frame_KeepTrailer(x, frame, build) ==
    IF x.enabled /\ ~IsControl(frame.opcode)
    THEN LET c == Deflator_compress(x.deflator, frame.payload, Len(frame.payload))
         IN  [res |-> Ok,
              frame |-> [frame EXCEPT !.payload = c.out, !.rsv1 = TRUE],
              x |-> [x EXCEPT !.deflator = IF x.config.compress_reset
                                           THEN Deflator_reset(c.stream) ELSE c.stream]]
    ELSE [res |-> Ok, frame |-> frame, x |-> x]

\* on_send_frame that never resets the encoder.
on_send_frame_NoReset(x, frame, build) ==
    IF x.enabled /\ ~IsControl(frame.opcode)
    THEN LET c == Deflator_compress(x.deflator, frame.payload, Len(frame.payload))
         IN  [res |-> Ok,
              frame |-> [frame EXCEPT !.payload = TruncateLast4(c.out), !.rsv1 = TRUE],
              x |-> [x EXCEPT !.deflator = c.stream]]
    ELSE [res |-> Ok, frame |-> frame, x |-> x]

\* on_send_frame.  len - 4 below 0 panics in a build that checks overflow
\* and wraps in one that does not.
on_send_frame(x, frame, build) ==
    IF x.enabled /\ ~IsControl(frame.opcode)
    THEN LET c == Deflator_compress(x.deflator, frame.payload, Len(frame.payload))
             len == Len(c.out)
             x1 == [x EXCEPT !.deflator = c.stream]
         IN  IF len < 4 /\ build = "debug"
             THEN [res |-> Panic("attempt to subtract with overflow"),
                   frame |-> frame, x |-> x1]
             ELSE [res |-> Ok,
                   frame |-> [frame EXCEPT !.payload = TruncateLast4(c.out),
                                           !.rsv1 = TRUE],
                   x |-> IF x.config.compress_reset
                         THEN [x1 EXCEPT !.deflator = Deflator_reset(@)]
                         ELSE x1]
    ELSE [res |-> Ok, frame |-> frame, x |-> x]

\* PlainTextExt::on_receive_frame (extensions module): the plain assembler,
\* which treats a data frame as the endpoint's data arm does.
PlainTextExt_on_receive_frame(plain, frame) ==
    LET r == DataFrame([incomplete |-> plain.incomplete], frame)
    IN  [res |-> r.res, plain |-> [incomplete |-> r.w.incomplete]]

\* on_receive_frame, after the decompression: the message, the reset of
\* the decoder and the result.
Delivered(x, message) ==
    IF message.tag = "Panic" THEN [res |-> message, x |-> x]
    ELSE [res |-> IF IsErr(message) THEN ErrDeflate(message.msg) ELSE message,
          x |-> IF x.config.decompress_reset
                THEN [x EXCEPT !.inflator = Inflator_reset(@)]
                ELSE x]

\* on_receive_frame
on_receive_frame(x, frame) ==
    IF IsControl(frame.opcode) THEN [res |-> Panic("unreachable"), x |-> x]
    ELSE IF x.enabled /\ (x.fragments # <<>> \/ frame.rsv1)
    THEN IF ~frame.fin
         THEN [res |-> OkNone, x |-> [x EXCEPT !.fragments = Append(@, frame)]]
         ELSE IF frame.opcode = "Continue"
         THEN IF /\ ~x.config.fragments_grow
                 /\ x.config.fragments_capacity = Len(x.fragments)
              THEN [res |-> ErrDeflate("Exceeded max fragments."), x |-> x]
              ELSE LET fragments == Append(x.fragments, frame)
                       opcode == fragments[1].opcode
                       compressed ==
                           Concat([i \in 1..Len(fragments) |-> fragments[i].payload])
                               \o Trailer
                       size == Len(compressed) - Len(Trailer)
                       d == Inflator_decompress(x.inflator, compressed, size * 2)
                       x1 == [x EXCEPT !.fragments = <<>>, !.inflator = d.stream]
                   IN  IF d.err THEN [res |-> ErrInflate("invalid block type"), x |-> x1]
                       ELSE Delivered(x1, complete_message(d.out, opcode))
         ELSE LET payload == frame.payload \o Trailer
                  d == Inflator_decompress(x.inflator, payload, Len(payload) * 2)
                  x1 == [x EXCEPT !.inflator = d.stream]
              IN  IF d.err THEN [res |-> ErrInflate("invalid block type"), x |-> x1]
                  ELSE Delivered(x1, complete_message(d.out, frame.opcode))
    ELSE LET r == PlainTextExt_on_receive_frame(x.uncompressed_extension, frame)
         IN  [res |-> IF IsErr(r.res) THEN ErrDeflate(r.res.msg) ELSE r.res,
              x |-> [x EXCEPT !.uncompressed_extension = r.plain]]

----------------------------------------------------------------------------
(* The environment: what the peer may send and what the caller may write.  *)

WithRsv(frame, r1, r2, r3) == [frame EXCEPT !.rsv1 = r1, !.rsv2 = r2, !.rsv3 = r3]

\* A frame as a client puts it on the wire: key attached, payload XOR-ed.
Masked(frame, key) ==
    [frame EXCEPT !.mask = key, !.payload = apply_mask(frame.payload, key)]

\* The payload a received frame stands for, whether it came masked or not.
Logical(frame) ==
    IF is_masked(frame) THEN apply_mask(frame.payload, frame.mask) ELSE frame.payload

\* A control payload one byte over the limit.
BigPayload == [i \in 1..(MaxControlPayload + 1) |-> 97]

DataPayloads == {<<97>>, <<98>>}

PingPayloads == {<<97>>, <<98>>, <<99>>}

\* Status codes of the Close frames the peer sends.
RxCloseCodes == {1000, 1001, 1005, 1012, 3000, 5000}

\* "bye"
ByeText == <<98, 121, 101>>

RxDataFrames ==
    {Frame(fin, op, pl) : fin \in BOOLEAN, op \in DataOps, pl \in DataPayloads}
        \cup {Frame(TRUE, "Text", <<255>>), Frame(TRUE, "Continue", <<255>>)}

RxCloseFrames ==
    {Frame_close(Some([code |-> c, reason |-> <<>>])) : c \in RxCloseCodes}
        \cup {Frame_close(Some([code |-> 1000, reason |-> ByeText])),
              Frame_close(None),
              Frame(TRUE, "Close", <<3>>),
              Frame(FALSE, "Close", CodeBytes(1000)),
              Frame(TRUE, "Close", BigPayload)}

RxControlFrames ==
    {Frame(TRUE, "Ping", pl) : pl \in PingPayloads}
        \cup {Frame(fin, op, <<97>>) : fin \in BOOLEAN, op \in {"Pong", "CtlReserved"}}
        \cup {Frame(FALSE, "Ping", <<97>>), Frame(TRUE, "Ping", BigPayload),
              Frame(TRUE, "Pong", BigPayload), Frame(TRUE, "CtlReserved", BigPayload)}
        \cup RxCloseFrames

RxRsvFrames ==
    {WithRsv(f, r1, r2, r3) :
        f \in {Frame(TRUE, "Text", <<97>>), Frame(TRUE, "Ping", <<97>>),
               Frame(FALSE, "Pong", <<97>>), Frame_close(None)},
        r1 \in BOOLEAN, r2 \in BOOLEAN, r3 \in BOOLEAN}

\* The frames of the peer before masking.
RxPlainFrames == RxDataFrames \cup RxControlFrames \cup RxRsvFrames

\* The key on the frames received masked.
RxKey == <<5, 250, 0, 129>>

\* Everything socket.read_frame() may yield.
Inputs ==
    {ReadFrame(f) : f \in RxPlainFrames}
        \cup {ReadFrame(Masked(f, RxKey)) : f \in RxPlainFrames}
        \cup {ReadErr, ReadEof}

\* The masks generate_mask may produce.
TxKeys == {<<1, 2, 3, 4>>, <<200, 100, 50, 25>>}

\* The messages the caller writes.
Messages == {[kind |-> "Text", data |-> <<97>>], [kind |-> "Binary", data |-> <<98>>]}

\* The data bytes an input would leave in the incomplete message: the model
\* takes a fragment only while the message stays within MaxBuf bytes.
MaxBuf == 3

FitsBuf(w, input) ==
    IF input.frame = None \/ w.incomplete = None THEN TRUE
    ELSE Len(w.incomplete[1].buf) + Len(input.frame[1].payload) <= MaxBuf

----------------------------------------------------------------------------
(* The state machine.                                                      *)

NoPings == [n |-> 0, data |-> <<>>]

\* No message is arriving.
NoAsm == [kind |-> "None", parts |-> <<>>, ctl |-> FALSE]

\* The message arriving after one more frame of the peer, told from the wire
\* alone: a Text or Binary frame starts a message, a Continuation frame
\* continues the one that is arriving, a final frame ends it; a Ping or Pong
\* in between is noted.  Frames outside such a sequence change nothing.
Arrive(a, st, r, frame) ==
    IF \/ st # "Active"
       \/ frame.rsv1 \/ frame.rsv2 \/ frame.rsv3
       \/ ~(is_masked(frame) <=> (r = "Server"))
    THEN a
    ELSE IF frame.opcode \in {"Ping", "Pong"}
         THEN IF a.kind # "None" /\ frame.fin /\ Len(frame.payload) <= MaxControlPayload
              THEN [a EXCEPT !.ctl = TRUE]
              ELSE a
    ELSE IF frame.opcode \in {"Text", "Binary"} /\ a.kind = "None"
         THEN IF frame.fin THEN NoAsm
              ELSE [kind |-> frame.opcode, parts |-> <<Logical(frame)>>, ctl |-> FALSE]
    ELSE IF frame.opcode = "Continue" /\ a.kind # "None"
         THEN IF frame.fin THEN NoAsm
              ELSE [a EXCEPT !.parts = Append(a.parts, Logical(frame))]
    ELSE a

\* The endpoint's fields as an operation finds them.
Snapshot == [state |-> state, incomplete |-> incomplete, send_queue |-> send_queue,
             pong |-> pong, pings |-> pings, asm |-> asm]

\* The extension has done nothing yet.
NoExtOp(x) == [op |-> "new", input |-> <<>>, res |-> Ok, pre |-> x]

\* Nothing has gone to the other end; b is the build.
NoTrip(b) ==
    [build |-> b, peer_op |-> "new", n |-> 0, out |-> None, got |-> None, peer_pre |-> None]

\* No loop of the codec is running.
NoCodec == [pc |-> "idle"]

\* The other end and the codec play no part.
NoPeer ==
    /\ peer = DeflateExt_new(DeflateConfig_default)
    /\ wire = None
    /\ trip = NoTrip("release")
    /\ codec = NoCodec

\* WebSocket::from_frame_socket
EndpointInit ==
    /\ role \in Roles
    /\ state = "Active"
    /\ incomplete = None
    /\ send_queue = <<>>
    /\ pong = None
    /\ pc = "idle"
    /\ sent = <<>>
    /\ wrote = <<>>
    /\ enq = 0
    /\ pings = NoPings
    /\ asm = NoAsm
    /\ pre = [state |-> "Active", incomplete |-> None, send_queue |-> <<>>,
              pong |-> None, pings |-> NoPings, asm |-> NoAsm]
    /\ last = [call |-> "new", op |-> "new", input |-> ReadEof, res |-> Ok, msg |-> None]

Init ==
    /\ EndpointInit
    /\ ext = DeflateExt_new(DeflateConfig_default)
    /\ http_response = Response_new
    /\ xlast = NoExtOp(ext)
    /\ NoPeer

\* The endpoint's fields take the values of w.
Become(w) ==
    /\ state' = w.state
    /\ incomplete' = w.incomplete
    /\ send_queue' = w.send_queue
    /\ pong' = w.pong
    /\ enq' = w.enq
    /\ role' = role

\* The enqueue numbers of the queued frames among the frames written.
RECURSIVE SeqsOf(_)
SeqsOf(frames) ==
    IF frames = <<>> THEN <<>>
    ELSE (IF frames[1].seq > 0 THEN <<frames[1].seq>> ELSE <<>>) \o SeqsOf(Tail(frames))

\* A run of send_pending on w inside the call named call; msg is the
\* message of a write_message, None in the other calls.
Flush(w, call, r, msg) ==
    /\ Become(r.w)
    /\ sent' = r.sent
    /\ wrote' = wrote \o SeqsOf(r.sent)
    /\ pings' = NoPings
    /\ asm' = asm
    /\ last' = [call |-> call, op |-> "send_pending", input |-> ReadEof, res |-> r.res,
                msg |-> msg]

\* A run of read_message_frame inside the call named call.
Receive(call, input, r) ==
    /\ Become(r.w)
    /\ sent' = <<>>
    /\ wrote' = wrote
    /\ pings' = IF /\ input.frame # None
                    /\ input.frame[1].opcode = "Ping"
                    /\ r.res = OkNone
                    /\ is_active(state)
                 THEN [n |-> pings.n + 1, data |-> Logical(input.frame[1])]
                 ELSE pings
    /\ asm' = IF input.frame # None THEN Arrive(asm, state, role, input.frame[1]) ELSE asm
    /\ last' = [call |-> call, op |-> "read_message_frame", input |-> input, res |-> r.res,
                msg |-> None]

\* read_message, the head of its loop: self.send_pending()?
ReadMessage_SendPending ==
    /\ pc \in {"idle", "rm_loop"}
    /\ \E nOk \in 0..Len(Pending(WS)) : \E keys \in [1..nOk -> TxKeys] :
          LET r == send_pending(WS, nOk, keys)
          IN  /\ Flush(WS, "read_message", r, None)
              /\ pc' = IF r.res = Ok THEN "rm_read" ELSE "idle"
    /\ pre' = Snapshot
    /\ UNCHANGED <<extVars, tripVars, codec>>

\* read_message, the rest of its loop: self.read_message_frame()?, which
\* ends the call with a message or an error and loops on Ok(None).
ReadMessage_Frame ==
    /\ pc = "rm_read"
    /\ \E input \in Inputs :
          /\ FitsBuf(WS, input)
          /\ LET r == read_message_frame(WS, input)
             IN  /\ Receive("read_message", input, r)
                 /\ pc' = IF r.res = OkNone THEN "rm_loop" ELSE "idle"
    /\ pre' = Snapshot
    /\ UNCHANGED <<extVars, tripVars, codec>>

\* write_message(message)
WriteMessage ==
    /\ pc = "idle"
    /\ enq < MaxWrites
    /\ \E m \in Messages :
          LET w1 == Enqueue(WS, MessageFrame(m))
          IN  \E nOk \in 0..Len(Pending(w1)) : \E keys \in [1..nOk -> TxKeys] :
                 Flush(w1, "write_message", send_pending(w1, nOk, keys), Some(m))
    /\ pc' = pc
    /\ pre' = Snapshot
    /\ UNCHANGED <<extVars, tripVars, codec>>

\* close()
Close ==
    /\ pc = "idle"
    /\ Become(close(WS))
    /\ sent' = <<>>
    /\ last' = [call |-> "close", op |-> "close", input |-> ReadEof, res |-> Ok,
                msg |-> None]
    /\ pre' = Snapshot
    /\ UNCHANGED <<pc, wrote, pings, asm>>
    /\ UNCHANGED <<extVars, tripVars, codec>>

Next ==
    \/ ReadMessage_SendPending
    \/ ReadMessage_Frame
    \/ WriteMessage
    \/ Close

Spec == Init /\ [][Next]_vars

----------------------------------------------------------------------------
(* The private handlers driven one by one, as a test inside the module     *)
(* drives them: read_message_frame without the flush of read_message       *)
(* before it, and send_pending on its own.                                 *)

\* The frames of the peer in these runs: Pings, and one frame of each other kind.
HandlerInputs ==
    LET plain == {Frame(TRUE, "Ping", pl) : pl \in PingPayloads}
                    \cup {Frame(TRUE, "Pong", <<97>>), Frame(TRUE, "Text", <<97>>),
                          Frame(FALSE, "Binary", <<98>>), Frame(TRUE, "Continue", <<97>>),
                          Frame_close(Some([code |-> 1000, reason |-> <<>>]))}
    IN  {ReadFrame(f) : f \in plain} \cup {ReadFrame(Masked(f, RxKey)) : f \in plain}

Handler_read_message_frame ==
    /\ pc = "idle"
    /\ pings.n < MaxPings
    /\ \E input \in HandlerInputs :
          /\ FitsBuf(WS, input)
          /\ Receive("read_message_frame", input, read_message_frame(WS, input))
    /\ pc' = pc
    /\ pre' = Snapshot
    /\ UNCHANGED <<extVars, tripVars, codec>>

Handler_send_pending ==
    /\ pc = "idle"
    /\ \E nOk \in 0..Len(Pending(WS)) : \E keys \in [1..nOk -> TxKeys] :
          Flush(WS, "send_pending", send_pending(WS, nOk, keys), None)
    /\ pc' = pc
    /\ pre' = Snapshot
    /\ UNCHANGED <<extVars, tripVars, codec>>

NextHandlers ==
    \/ Handler_read_message_frame
    \/ Handler_send_pending
    \/ WriteMessage
    \/ Close

SpecHandlers == Init /\ [][NextHandlers]_vars

----------------------------------------------------------------------------
(* The extension on its own: the negotiation at the handshake, on the      *)
(* server (on_receive_request) or on the client (on_response), and the     *)
(* data frames received afterwards (on_receive_frame).                     *)

\* The configurations of the runs.
Configs ==
    {[DeflateConfig_default EXCEPT !.max_window_bits = max,
                                   !.request_no_context_takeover = req,
                                   !.accept_no_context_takeover = acc,
                                   !.fragments_capacity = 2,
                                   !.fragments_grow = grow] :
        max \in {12, 15}, req \in BOOLEAN, acc \in BOOLEAN, grow \in BOOLEAN}
        \cup {[DeflateConfig_default EXCEPT !.accept_no_context_takeover = acc,
                                            !.compress_reset = c,
                                            !.decompress_reset = ~c] :
                 acc \in BOOLEAN, c \in BOOLEAN}

\* "10", " 10", "16" and "x" as character codes.
Text10 == <<49, 48>>

TextBlank10 == <<32, 49, 48>>

Text16 == <<49, 54>>

TextX == <<120>>

\* The parameters a header value may hold: the extension's name, its four
\* parameters with and without values, a parameter that only begins with a
\* known word ("server_max_window_bits_x") and an unknown one.
ParamTokens ==
    {Param("permessage-deflate", None),
     Param("server_no_context_takeover", None),
     Param("client_no_context_takeover", None),
     Param("server_max_window_bits", None),
     Param("server_max_window_bits", Some(TextBlank10)),
     Param("server_max_window_bits", Some(Text16)),
     Param("server_max_window_bits", Some(TextX)),
     Param("client_max_window_bits", None),
     Param("client_max_window_bits", Some(Text10)),
     [name |-> "server_max_window_bits", more |-> TRUE, value |-> None],
     Param("unknown", None)}

\* A header value that is a text.
HeaderText(params) == [text |-> TRUE, params |-> params]

\* A header value with bytes that are not visible ASCII.
HeaderOpaque == [text |-> FALSE, params |-> <<>>]

\* The header values of up to MaxParams parameters.
HeaderValues ==
    {HeaderText(ps) : ps \in UNION {[1..n -> ParamTokens] : n \in 0..MaxParams}}

\* Header values for the messages that carry two of them.
FewHeaderValues ==
    {HeaderText(<<Param("permessage-deflate", None)>>),
     HeaderText(<<Param("permessage-deflate", None), Param("client_max_window_bits", None)>>),
     HeaderText(<<Param("unknown", None)>>),
     HeaderOpaque}

\* The Sec-WebSocket-Extensions header values of a request or a response:
\* none, one, or two.
HeaderLists ==
    {<<>>, <<HeaderOpaque>>}
        \cup {<<h>> : h \in HeaderValues}
        \cup {<<h1, h2>> : h1 \in FewHeaderValues, h2 \in FewHeaderValues}

\* The offers and the answers of the handshakes that come before frames.
FewRequests ==
    {<<>>,
     <<HeaderText(<<Param("permessage-deflate", None),
                    Param("client_max_window_bits", None)>>)>>,
     <<HeaderText(<<Param("permessage-deflate", None),
                    Param("client_max_window_bits", None),
                    Param("server_no_context_takeover", None)>>)>>,
     <<HeaderText(<<Param("permessage-deflate", None),
                    Param("client_no_context_takeover", None)>>)>>}

FewResponses ==
    {<<>>,
     <<HeaderText(<<Param("permessage-deflate", None)>>)>>,
     <<HeaderText(<<Param("permessage-deflate", None),
                    Param("server_no_context_takeover", None)>>)>>,
     <<HeaderText(<<Param("permessage-deflate", None),
                    Param("server_no_context_takeover", None),
                    Param("client_no_context_takeover", None)>>)>>}

\* A data frame as the endpoint hands it to the extension.
ExtFrame(fin, opcode, rsv1, payload) == [Frame(fin, opcode, payload) EXCEPT !.rsv1 = rsv1]

\* The data frames received: the pieces of compressed and of plain
\* messages, in and out of place, and a block of a reserved type.
ExtFrames ==
    {ExtFrame(FALSE, "Text", TRUE, <<2>>),
     ExtFrame(FALSE, "Binary", TRUE, <<2>>),
     ExtFrame(FALSE, "Continue", FALSE, <<98>>),
     ExtFrame(FALSE, "Text", FALSE, <<97>>),
     ExtFrame(TRUE, "Continue", FALSE, <<99>>),
     ExtFrame(TRUE, "Continue", TRUE, <<2, 98>>),
     ExtFrame(TRUE, "Text", TRUE, <<2, 98>>),
     ExtFrame(TRUE, "Text", FALSE, <<97>>),
     ExtFrame(TRUE, "Binary", TRUE, <<7>>),
     ExtFrame(TRUE, "Binary", FALSE, <<98>>),
     ExtFrame(TRUE, "DataReserved", FALSE, <<97>>)}

\* The model takes a fragment only while the fragment list stays within
\* MaxFragments frames and the plain message within MaxBuf bytes.
FitsExt(x, frame) ==
    /\ (x.enabled /\ ~frame.fin) => Len(x.fragments) < MaxFragments
    /\ IF x.uncompressed_extension.incomplete = None THEN TRUE
       ELSE Len(x.uncompressed_extension.incomplete[1].buf) + Len(frame.payload) <= MaxBuf

InitExt ==
    /\ EndpointInit
    /\ \E config \in Configs : ext = DeflateExt_new(config)
    /\ http_response = Response_new
    /\ xlast = NoExtOp(ext)
    /\ NoPeer

\* The server's handshake: on_receive_request on one of the requests.
ReceiveRequest(requests) ==
    /\ role = "Server"
    /\ xlast.op = "new"
    /\ \E request \in requests :
          LET r == on_receive_request(ext, request, http_response)
          IN  /\ ext' = r.x
              /\ http_response' = r.response
              /\ xlast' = [op |-> "on_receive_request", input |-> request,
                           res |-> r.res, pre |-> ext]
    /\ UNCHANGED <<wsVars, tripVars, codec>>

\* The client's handshake: on_response on one of the responses.
ReceiveResponse(responses) ==
    /\ role = "Client"
    /\ xlast.op = "new"
    /\ \E headers \in responses :
          LET r == on_response(ext, headers)
          IN  /\ ext' = r.x
              /\ xlast' = [op |-> "on_response", input |-> headers,
                           res |-> r.res, pre |-> ext]
    /\ UNCHANGED <<wsVars, http_response, tripVars, codec>>

OnReceiveRequest == ReceiveRequest(HeaderLists)

OnResponse == ReceiveResponse(HeaderLists)

NextNegotiation ==
    \/ OnReceiveRequest
    \/ OnResponse

SpecNegotiation == InitExt /\ [][NextNegotiation]_vars

Handshake_OnReceiveRequest == ReceiveRequest(FewRequests)

Handshake_OnResponse == ReceiveResponse(FewResponses)

\* on_receive_frame on a data frame, while the last call did not panic.
OnReceiveFrame ==
    /\ xlast.res.tag # "Panic"
    /\ \E frame \in ExtFrames :
          /\ FitsExt(ext, frame)
          /\ LET r == on_receive_frame(ext, frame)
             IN  /\ ext' = r.x
                 /\ xlast' = [op |-> "on_receive_frame", input |-> frame,
                              res |-> r.res, pre |-> ext]
    /\ UNCHANGED <<wsVars, http_response, tripVars, codec>>

NextExt ==
    \/ Handshake_OnReceiveRequest
    \/ Handshake_OnResponse
    \/ OnReceiveFrame

SpecExt == InitExt /\ [][NextExt]_vars

----------------------------------------------------------------------------
(* Two ends of a connection: ext sends data frames through on_send_frame,   *)
(* peer receives them through on_receive_frame, after the handshake of     *)
(* each.                                                                   *)

\* The messages sent one after the other in a run, at most.
MaxMessages == 2

\* The configurations of the two ends.
TripConfigs ==
    {[DeflateConfig_default EXCEPT !.compress_reset = c, !.decompress_reset = d] :
        c \in BOOLEAN, d \in BOOLEAN}

\* The frames handed to on_send_frame: whole messages, one of them empty,
\* and a control frame.
TripFrames ==
    {Frame_message(<<>>, "Text", TRUE),
     Frame_message(<<97>>, "Text", TRUE),
     Frame_message(<<98, 97>>, "Binary", TRUE),
     Frame(TRUE, "Ping", <<97>>)}

InitRoundTrip ==
    /\ EndpointInit
    /\ \E config \in TripConfigs : ext = DeflateExt_new(config)
    /\ \E config \in TripConfigs : peer = DeflateExt_new(config)
    /\ http_response = Response_new
    /\ xlast = NoExtOp(ext)
    /\ wire = None
    /\ \E b \in Builds : trip = NoTrip(b)
    /\ codec = NoCodec

\* The handshake of the other end: on_receive_request if it is the server,
\* on_response if it is the client.
Peer_Handshake ==
    /\ trip.peer_op = "new"
    /\ IF role = "Client"
       THEN \E request \in FewRequests :
               LET r == on_receive_request(peer, request, Response_new)
               IN  /\ peer' = r.x
                   /\ trip' = [trip EXCEPT !.peer_op = "on_receive_request"]
       ELSE \E headers \in FewResponses :
               LET r == on_response(peer, headers)
               IN  /\ peer' = r.x
                   /\ trip' = [trip EXCEPT !.peer_op = "on_response"]
    /\ UNCHANGED <<wsVars, extVars, wire, codec>>

\* on_send_frame on a frame, once both ends are through their handshake and
\* while nothing has panicked; a data frame goes on the wire.
OnSendFrame ==
    /\ xlast.op # "new"
    /\ trip.peer_op # "new"
    /\ xlast.res.tag # "Panic"
    /\ wire = None
    /\ trip.n < MaxMessages
    /\ \E frame \in TripFrames :
          LET r == on_send_frame(ext, frame, trip.build)
          IN  /\ ext' = r.x
              /\ xlast' = [op |-> "on_send_frame", input |-> frame, res |-> r.res,
                           pre |-> ext]
              /\ wire' = IF r.res = Ok /\ ~IsControl(frame.opcode) THEN Some(r.frame)
                         ELSE None
              /\ trip' = [trip EXCEPT !.n = @ + 1, !.out = Some(r.frame), !.got = None,
                                      !.peer_pre = None]
    /\ UNCHANGED <<wsVars, http_response, peer, codec>>

\* The other end's on_receive_frame on the frame on the wire.
Peer_OnReceiveFrame ==
    /\ wire # None
    /\ LET r == on_receive_frame(peer, wire[1])
       IN  /\ peer' = r.x
           /\ trip' = [trip EXCEPT !.got = Some(r.res), !.peer_pre = Some(peer)]
    /\ wire' = None
    /\ UNCHANGED <<wsVars, extVars, codec>>

NextRoundTrip ==
    \/ Handshake_OnReceiveRequest
    \/ Handshake_OnResponse
    \/ Peer_Handshake
    \/ OnSendFrame
    \/ Peer_OnReceiveFrame

SpecRoundTrip == InitRoundTrip /\ [][NextRoundTrip]_vars

----------------------------------------------------------------------------
(* A whole handshake between two ends: the client makes its offer with     *)
(* on_make_request, the server answers it with on_receive_request, and the *)
(* client reads the answer with on_response.  ext is the end whose role is *)
(* role and peer is the other end; xlast holds the latest operation of     *)
(* ext, trip.peer_op and trip.got those of peer; the request travels in    *)
(* wire and the response in http_response.                                 *)

\* The configurations of the two ends before the handshake.
HandshakeConfigs ==
    {[DeflateConfig_default EXCEPT !.max_window_bits = max,
                                   !.request_no_context_takeover = req,
                                   !.accept_no_context_takeover = acc] :
        max \in {12, 15}, req \in BOOLEAN, acc \in BOOLEAN}

InitHandshake ==
    /\ EndpointInit
    /\ \E config \in HandshakeConfigs : ext = DeflateExt_new(config)
    /\ \E config \in HandshakeConfigs : peer = DeflateExt_new(config)
    /\ http_response = Response_new
    /\ xlast = NoExtOp(ext)
    /\ wire = None
    /\ trip = NoTrip("release")
    /\ codec = NoCodec

\* The values of the Sec-WebSocket-Extensions headers of a response.
ExtensionHeaders(response) ==
    IF response[SEC_WEBSOCKET_EXTENSIONS] = None THEN <<>>
    ELSE <<[text |-> TRUE, params |-> response[SEC_WEBSOCKET_EXTENSIONS][1]]>>

\* The client puts its offer into a request without extension headers.
Client_OnMakeRequest ==
    /\ wire = None
    /\ xlast.op = "new"
    /\ trip.peer_op = "new"
    /\ IF role = "Client"
       THEN /\ wire' = Some(on_make_request(ext, <<>>))
            /\ xlast' = [op |-> "on_make_request", input |-> <<>>, res |-> Ok, pre |-> ext]
            /\ trip' = trip
       ELSE /\ wire' = Some(on_make_request(peer, <<>>))
            /\ trip' = [trip EXCEPT !.peer_op = "on_make_request"]
            /\ xlast' = xlast
    /\ UNCHANGED <<wsVars, ext, http_response, peer, codec>>

\* The server reads the request and fills in the response.
Server_OnReceiveRequest ==
    /\ wire # None
    /\ IF role = "Server"
       THEN LET r == on_receive_request(ext, wire[1], http_response)
            IN  /\ ext' = r.x
                /\ http_response' = r.response
                /\ xlast' = [op |-> "on_receive_request", input |-> wire[1],
                             res |-> r.res, pre |-> ext]
                /\ UNCHANGED <<peer, trip>>
       ELSE LET r == on_receive_request(peer, wire[1], http_response)
            IN  /\ peer' = r.x
                /\ http_response' = r.response
                /\ trip' = [trip EXCEPT !.peer_op = "on_receive_request",
                                        !.got = Some(r.res), !.peer_pre = Some(peer)]
                /\ UNCHANGED <<ext, xlast>>
    /\ wire' = None
    /\ UNCHANGED <<wsVars, codec>>

\* The client reads the response.
Client_OnResponse ==
    /\ wire = None
    /\ IF role = "Client"
       THEN /\ xlast.op = "on_make_request"
            /\ trip.peer_op = "on_receive_request"
            /\ LET r == on_response(ext, ExtensionHeaders(http_response))
               IN  /\ ext' = r.x
                   /\ xlast' = [op |-> "on_response",
                                input |-> ExtensionHeaders(http_response),
                                res |-> r.res, pre |-> ext]
            /\ UNCHANGED <<peer, trip>>
       ELSE /\ xlast.op = "on_receive_request"
            /\ trip.peer_op = "on_make_request"
            /\ LET r == on_response(peer, ExtensionHeaders(http_response))
               IN  /\ peer' = r.x
                   /\ trip' = [trip EXCEPT !.peer_op = "on_response",
                                           !.got = Some(r.res), !.peer_pre = Some(peer)]
            /\ UNCHANGED <<ext, xlast>>
    /\ UNCHANGED <<wsVars, http_response, wire, codec>>

NextHandshake ==
    \/ Client_OnMakeRequest
    \/ Server_OnReceiveRequest
    \/ Client_OnResponse

SpecHandshake == InitHandshake /\ [][NextHandshake]_vars

----------------------------------------------------------------------------
(* The loops of Deflator::compress and Inflator::decompress on their own,  *)
(* turn by turn, with a primitive of which only this is known: a call      *)
(* takes some of the input and hands out some bytes, it does nothing       *)
(* without room, it takes or hands out at least one byte when it has input  *)
(* and room, and it makes at most MaxExpand bytes of each byte it takes,    *)
(* besides a mark of at most one byte for the flush.                       *)

\* The bytes of an input, at most.
MaxInput == 2

\* The bytes the primitive makes of one byte of input, at most.
MaxExpand == 1

\* The room of the output vector before the loop, at most.
MaxSpare == 2

\* n bytes made by the primitive.
Made(n) == [i \in 1..n |-> 7]

\* The inputs and the output vectors of the runs: the output holds nothing
\* or one byte already.
CodecInputs == {[i \in 1..n |-> 1] : n \in 0..MaxInput}

CodecOutputs == {<<>>, <<9>>}

\* The calls the primitive may answer with in a turn of the loop l.
PrimitiveCalls(l) ==
    LET space == Space(l)
        takes == IF space = 0 THEN {0} ELSE 0..Len(l.read_buff)
        call(k, j, m) ==
            [consumed |-> k,
             out |-> SubSeq(l.pend \o Made(j), 1, m),
             pend |-> SubSeq(l.pend \o Made(j), m + 1, Len(l.pend) + j)]
        hands(j) == IF space < Len(l.pend) + j THEN space ELSE Len(l.pend) + j
        calls == UNION {UNION {{call(k, j, m) : m \in 0..hands(j)} :
                                   j \in 0..(k * MaxExpand)} : k \in takes}
    IN  {c \in calls :
            (l.read_buff # <<>> /\ space > 0) => c.consumed + Len(c.out) > 0}

\* Deflator::compress or Inflator::decompress is called.
Codec_Start ==
    /\ codec.pc = "idle"
    /\ \E op \in {"compress", "decompress"}, input \in CodecInputs,
          output \in CodecOutputs, spare \in 0..MaxSpare, mark \in 0..1 :
          codec' = [pc |-> "loop", op |-> op, output |-> output,
                    capacity |-> Len(output) + spare,
                    l |-> [NewLoop(input, output, Len(output) + spare)
                              EXCEPT !.pend = Made(mark)],
                    res |-> Ok, last_out |-> 0]
    /\ UNCHANGED <<wsVars, extVars, tripVars>>

\* One turn of the loop in which the primitive answers Status::Ok or
\* Status::BufError: the loop goes on or returns.
Codec_Turn ==
    /\ codec.pc = "loop"
    /\ \E c \in PrimitiveCalls(codec.l) :
          codec' = [codec EXCEPT !.pc = IF Turn(codec.l, c).done THEN "done" ELSE "loop",
                                 !.l = Turn(codec.l, c),
                                 !.last_out = Len(c.out)]
    /\ UNCHANGED <<wsVars, extVars, tripVars>>

\* One turn of the loop in which the primitive fails (the ? returns its
\* error) or reports another status (the loop panics).
Codec_Fail ==
    /\ codec.pc = "loop"
    /\ \/ codec' = [codec EXCEPT !.pc = "done",
                                 !.res = IF codec.op = "compress"
                                         THEN ErrDeflate("primitive")
                                         ELSE ErrInflate("primitive")]
       \/ \E c \in PrimitiveCalls(codec.l) :
             codec' = [codec EXCEPT !.pc = "done", !.res = Panic("status"),
                                    !.l = [Turn(codec.l, c) EXCEPT !.done = FALSE],
                                    !.last_out = Len(c.out)]
    /\ UNCHANGED <<wsVars, extVars, tripVars>>

NextCodec ==
    \/ Codec_Start
    \/ Codec_Turn
    \/ Codec_Fail

SpecCodec == Init /\ [][NextCodec]_vars

\* The loop is a sequential piece of code: a turn that can be taken is
\* taken.  Nothing makes the primitive fail.
SpecCodecLive == SpecCodec /\ WF_vars(Codec_Turn)

----------------------------------------------------------------------------
(* Properties.  They read the latest operation (last), the fields it found  *)
(* (pre) and the fields it left.                                           *)

\* The latest step ran read_message_frame on a frame.
ReadAFrame == last.op = "read_message_frame" /\ last.input.frame # None

\* The frame the latest read_message_frame was given.
RxFrame == last.input.frame[1]

\* A frame that passes the checks that precede the dispatch on the opcode:
\* no reserved bit, masked if and only if it comes from a client.
PassesChecks(frame) ==
    /\ ~frame.rsv1 /\ ~frame.rsv2 /\ ~frame.rsv3
    /\ is_masked(frame) <=> (role = "Server")

\* The latest operation left the connection state, the incomplete message,
\* the send queue and the pong slot as it found them.
NoEffect ==
    /\ state = pre.state
    /\ incomplete = pre.incomplete
    /\ send_queue = pre.send_queue
    /\ pong = pre.pong

\* The status code of a Close body of two bytes or more.
CodeOf(payload) == payload[1] * 256 + payload[2]

\* The codes a peer may give as its reason.
AllowedCodes == ((1000..1011) \cup (3000..4999)) \ {1004, 1005, 1006}

\* C1: close() on an Active endpoint moves the state to ClosedByUs and
\* enqueues a Close frame; in any other state it changes neither the state
\* nor the send queue nor the pong slot; it always returns success.
C1_CloseEnqueuesClose ==
    last.op = "close" =>
        /\ last.res = Ok
        /\ IF pre.state = "Active"
           THEN /\ state = "ClosedByUs"
                /\ Len(send_queue) = Len(pre.send_queue) + 1
                /\ send_queue[Len(send_queue)].opcode = "Close"
           ELSE NoEffect

\* A well-formed Close frame, one that reaches do_close.
IsGoodClose(frame) ==
    /\ PassesChecks(frame)
    /\ frame.opcode = "Close"
    /\ frame.fin
    /\ Len(frame.payload) <= MaxControlPayload
    /\ Len(frame.payload) # 1

\* The latest step gave a well-formed Close frame to an Active endpoint.
CloseWhileActive == ReadAFrame /\ pre.state = "Active" /\ IsGoodClose(RxFrame)

\* The state is ClosedByPeer and exactly one frame, a Close, was appended.
OneReplyAppended ==
    /\ last.res = OkNone
    /\ state = "ClosedByPeer"
    /\ Len(send_queue) = Len(pre.send_queue) + 1
    /\ SubSeq(send_queue, 1, Len(pre.send_queue)) = pre.send_queue
    /\ send_queue[Len(send_queue)].opcode = "Close"
    /\ send_queue[Len(send_queue)].fin

\* The reply Close, the frame at the tail of the send queue.
Reply == send_queue[Len(send_queue)]

\* C2 as stated: the reply mirrors the received code when that code is
\* allowed, carries 1002 when it is not, and has no body when the received
\* Close carried no code.
C2_ReplyMirrorsCode ==
    CloseWhileActive =>
        /\ OneReplyAppended
        /\ LET body == Logical(RxFrame)
           IN  IF body = <<>> THEN Reply.payload = <<>>
               ELSE /\ Len(Reply.payload) >= 2
                    /\ CodeOf(Reply.payload) =
                          IF CodeOf(body) \in AllowedCodes THEN CodeOf(body) ELSE 1002

\* C2 (amended): when an Active endpoint receives a Close frame, the state
\* becomes ClosedByPeer and exactly one reply Close is appended to the send
\* queue, whose code is 1000 (Normal) when the received code is allowed, is
\* 1002 when it is not, and whose body is empty when the received Close
\* carried no code.
C2_ReplyNormalOrProtocol ==
    CloseWhileActive =>
        /\ OneReplyAppended
        /\ LET body == Logical(RxFrame)
           IN  IF body = <<>> THEN Reply.payload = <<>>
               ELSE /\ Len(Reply.payload) >= 2
                    /\ CodeOf(Reply.payload) =
                          IF CodeOf(body) \in AllowedCodes THEN 1000 ELSE 1002

\* C2 witness: an allowed code other than 1000 was received and answered.
C2_Witness ==
    /\ CloseWhileActive
    /\ Logical(RxFrame) = CodeBytes(3000)
    /\ state = "ClosedByPeer"
    /\ Len(send_queue) = 1

\* C3: while the endpoint is not Active a received data frame never yields
\* a message and leaves the state, the incomplete message, the send queue
\* and the pong slot unchanged; one that passes the reserved-bit and masking
\* checks, which precede the dispatch, is dropped without an error.
C3_DataDroppedWhenNotActive ==
    (ReadAFrame /\ pre.state # "Active" /\ RxFrame.opcode \in DataOps) =>
        /\ last.res.tag # "Message"
        /\ NoEffect
        /\ PassesChecks(RxFrame) => last.res = OkNone

\* C3 witness: a final Text frame was dropped after the peer's Close.
C3_Witness ==
    /\ ReadAFrame
    /\ pre.state = "ClosedByPeer"
    /\ RxFrame.opcode = "Text" /\ RxFrame.fin
    /\ PassesChecks(RxFrame)
    /\ last.res = OkNone

\* The latest step ran send_pending, on its own or inside a call.
RanSendPending == last.op = "send_pending"

\* The places of the Pongs among the frames the latest call wrote.
PongsSent == {i \in 1..Len(sent) : sent[i].opcode = "Pong"}

\* C4: after one or more Pings processed with no send in between, the pong
\* slot holds one Pong whose payload is that of the latest Ping; the next
\* send_pending empties the slot and writes at most one Pong, as its first
\* frame and with that payload, and it writes it whenever it succeeds.
C4_PongCoalesced ==
    /\ pings.n >= 1 =>
          /\ pong # None
          /\ pong[1].opcode = "Pong"
          /\ pong[1].payload = pings.data
    /\ (RanSendPending /\ pre.pings.n >= 1) =>
          /\ pong = None
          /\ Cardinality(PongsSent) <= 1
          /\ sent # <<>> => (1 \in PongsSent /\ sent[1].payload = pre.pings.data)
          /\ last.res = Ok => sent # <<>>

\* C4 witness: three Pings were coalesced into the one Pong that was sent.
C4_Witness ==
    /\ RanSendPending
    /\ pre.pings.n = 3
    /\ last.res = Ok
    /\ PongsSent = {1}
    /\ sent[1].payload = pre.pings.data

\* C5: in a send_pending that finds the pong slot set, every queued frame
\* that is written is written after the Pong of the slot.
C5_PongBeforeQueue ==
    (RanSendPending /\ pre.pong # None) =>
        \A i \in 1..Len(sent) :
            sent[i].seq > 0 =>
                /\ i > 1
                /\ sent[1].opcode = "Pong"
                /\ sent[1].payload = pre.pong[1].payload

\* C5 witness: one call wrote the Pong and then a queued frame.
C5_Witness ==
    /\ RanSendPending
    /\ pre.pong # None
    /\ Len(sent) >= 2
    /\ sent[1].opcode = "Pong"
    /\ sent[2].seq > 0

\* Strictly increasing.
Increasing(q) == \A i, j \in 1..Len(q) : i < j => q[i] < q[j]

\* C6: queued frames are written in the order they were enqueued: the
\* enqueue numbers of the frames written so far, followed by those of the
\* frames still queued, increase strictly, so that no queued frame is
\* written twice and none overtakes another.
C6_QueueIsFifo == Increasing(wrote \o SeqsOf(send_queue))

\* C6 witness: two queued frames were written by one call, one is a Close.
C6_Witness ==
    /\ RanSendPending
    /\ Len(sent) >= 2
    /\ sent[1].seq > 0 /\ sent[2].seq > 0
    /\ sent[1].opcode = "Close"
    /\ Len(wrote) >= 2

\* C7: every frame written to the transport is masked when the role is
\* Client and unmasked when it is Server.
C7_MaskedByRole ==
    \A i \in 1..Len(sent) : is_masked(sent[i]) <=> (role = "Client")

\* C7 witness: a client wrote its reply Close, masked.
C7_Witness ==
    /\ role = "Client"
    /\ \E i \in 1..Len(sent) : sent[i].opcode = "Close" /\ is_masked(sent[i])

\* C8: a server answers every unmasked frame, and a client every masked
\* frame, with a protocol error and without effect, in every state; a
\* server unmasks a masked frame before the dispatch, so that a Pong and a
\* message carry the unmasked bytes.
C8_RoleCheck ==
    ReadAFrame =>
        /\ (role = "Server" /\ ~is_masked(RxFrame)) =>
              IsProtocolErr(last.res) /\ NoEffect
        /\ (role = "Client" /\ is_masked(RxFrame)) =>
              IsProtocolErr(last.res) /\ NoEffect
        /\ (/\ role = "Server" /\ PassesChecks(RxFrame) /\ pre.state = "Active"
            /\ RxFrame.opcode = "Ping" /\ RxFrame.fin
            /\ Len(RxFrame.payload) <= MaxControlPayload) =>
              pong # None /\ pong[1].payload = Logical(RxFrame)
        /\ (/\ role = "Server" /\ last.res.tag = "Message"
            /\ pre.incomplete = None) =>
              last.res.data = Logical(RxFrame)

\* C8 witness: a server that has called close() refused an unmasked Ping.
C8_Witness ==
    /\ ReadAFrame
    /\ role = "Server"
    /\ pre.state = "ClosedByUs"
    /\ RxFrame.opcode = "Ping" /\ ~is_masked(RxFrame)
    /\ ~RxFrame.rsv1 /\ ~RxFrame.rsv2 /\ ~RxFrame.rsv3
    /\ IsProtocolErr(last.res)

\* A reserved bit of the frame is set that the extension does not claim.
UnclaimedRsv(frame, enabled) ==
    \/ frame.rsv1 /\ ~DeflateExt_rsv1(enabled)
    \/ frame.rsv2
    \/ frame.rsv3

\* C9: a received frame with a reserved bit set that the extension does not
\* claim, whether permessage-deflate is enabled or not, is rejected with the
\* reserved-bits protocol error and without effect, whatever its mask bit
\* and opcode: the check comes before the mask check and the dispatch.
C9_RsvRejected ==
    \A enabled \in BOOLEAN :
        (ReadAFrame /\ UnclaimedRsv(RxFrame, enabled)) =>
            /\ last.res = ErrProtocol("Reserved bits are non-zero")
            /\ NoEffect

\* C9 witness: a frame with rsv2 set and the wrong mask bit for the role
\* was rejected for its reserved bit.
C9_Witness ==
    /\ ReadAFrame
    /\ RxFrame.rsv2 /\ ~RxFrame.rsv1 /\ ~RxFrame.rsv3
    /\ is_masked(RxFrame) <=> (role = "Client")
    /\ last.res = ErrProtocol("Reserved bits are non-zero")

\* C10: a received control frame that is not final or whose payload is
\* longer than 125 bytes yields a protocol error and leaves the state, the
\* pong slot and the send queue unchanged; a control frame with a reserved
\* opcode yields a protocol error.
C10_BadControlRejected ==
    (ReadAFrame /\ IsControl(RxFrame.opcode)) =>
        /\ (~RxFrame.fin \/ Len(RxFrame.payload) > 125) =>
              IsProtocolErr(last.res) /\ NoEffect
        /\ RxFrame.opcode = "CtlReserved" =>
              IsProtocolErr(last.res) /\ NoEffect

\* C10 witness: an Active endpoint refused a final, well-masked Ping of 126
\* bytes.
C10_Witness ==
    /\ ReadAFrame
    /\ pre.state = "Active"
    /\ PassesChecks(RxFrame)
    /\ RxFrame.opcode = "Ping" /\ RxFrame.fin
    /\ Len(RxFrame.payload) = 126
    /\ last.res = ErrProtocol("Control frame too big")

\* The latest step gave an Active endpoint a data frame of the given
\* opcodes that passes the checks before the dispatch.
DataRead(opcodes) ==
    /\ ReadAFrame
    /\ pre.state = "Active"
    /\ PassesChecks(RxFrame)
    /\ RxFrame.opcode \in opcodes

\* C11: a Continuation frame received while Active with no message in
\* progress yields a protocol error and changes nothing; one received while
\* a message is in progress is appended to it: if it is not final the
\* longer message stays in progress and nothing is returned, if it is final
\* incomplete becomes None and the completed message is returned (an error
\* if it is a text that is not UTF-8).
C11_Continuation ==
    DataRead({"Continue"}) =>
        IF pre.incomplete = None
        THEN IsProtocolErr(last.res) /\ NoEffect
        ELSE LET kind == pre.incomplete[1].kind
                 buf == pre.incomplete[1].buf \o Logical(RxFrame)
             IN  IF RxFrame.fin
                 THEN /\ incomplete = None
                      /\ IF kind = "Text" /\ ~IsUtf8(buf) THEN IsErr(last.res)
                         ELSE last.res = OkMessage(kind, buf)
                 ELSE /\ last.res = OkNone
                      /\ incomplete = Some([kind |-> kind, buf |-> buf])

\* C11 witness: a final Continuation completed a message of three fragments.
C11_Witness ==
    /\ DataRead({"Continue"})
    /\ RxFrame.fin
    /\ pre.incomplete # None
    /\ last.res.tag = "Message"
    /\ Len(last.res.data) = 3
    /\ incomplete = None

\* The latest frame carries on a valid sequence: it starts a message when
\* none is arriving, or continues the one that is.
ValidFragment ==
    \/ DataRead({"Text", "Binary"}) /\ pre.asm.kind = "None"
    \/ DataRead({"Continue"}) /\ pre.asm.kind # "None"

\* The message the peer has sent once the latest frame ends it: the kind of
\* its first frame, the payloads of its frames in the order of arrival.
ArrivedKind == IF pre.asm.kind = "None" THEN RxFrame.opcode ELSE pre.asm.kind

ArrivedData == Concat(Append(pre.asm.parts, Logical(RxFrame)))

\* A Ping or Pong in the middle of a fragmented message.
ControlBetween ==
    /\ ReadAFrame
    /\ pre.state = "Active"
    /\ PassesChecks(RxFrame)
    /\ pre.asm.kind # "None"
    /\ RxFrame.opcode \in {"Ping", "Pong"}
    /\ RxFrame.fin
    /\ Len(RxFrame.payload) <= MaxControlPayload

\* C13: along a valid frame sequence read_message goes on reading after
\* every frame that is not final, control frames in between leave the
\* message in progress alone, and on the final frame read_message returns
\* the message of the kind of the first frame whose bytes are the fragment
\* payloads in arrival order (well-formed text or binary); read_message
\* returns a message at no other moment, so that the messages come out in
\* the order in which their frames arrived.
C13_MessageAssembled ==
    /\ (ValidFragment /\ RxFrame.fin) =>
          IF ArrivedKind = "Text" /\ ~IsUtf8(ArrivedData) THEN IsErr(last.res)
          ELSE last.res = OkMessage(ArrivedKind, ArrivedData) /\ pc = "idle"
    /\ (ValidFragment /\ ~RxFrame.fin) =>
          /\ last.res = OkNone
          /\ pc = "rm_loop"
          /\ incomplete # None
    /\ ControlBetween =>
          /\ last.res = OkNone
          /\ pc = "rm_loop"
          /\ incomplete = pre.incomplete
    /\ last.res.tag = "Message" => (ValidFragment /\ RxFrame.fin)

\* C13 witness: read_message returned a Binary message of three fragments
\* that had a control frame in between.
C13_Witness ==
    /\ ValidFragment
    /\ RxFrame.fin
    /\ pre.asm.ctl
    /\ Len(pre.asm.parts) = 2
    /\ pre.asm.parts[1] # pre.asm.parts[2]
    /\ last.res = OkMessage("Binary", ArrivedData)
    /\ pc = "idle"

\* The latest step gave a well-formed Ping or Pong to an endpoint in state st.
PingPongRead(st) ==
    /\ ReadAFrame
    /\ pre.state = st
    /\ PassesChecks(RxFrame)
    /\ RxFrame.opcode \in {"Ping", "Pong"}
    /\ RxFrame.fin
    /\ Len(RxFrame.payload) <= MaxControlPayload

\* C14: a well-formed Ping or Pong received while the endpoint is not
\* Active returns no error and leaves the pong slot, the state, the send
\* queue and the incomplete message as they were; every Pong written to
\* the transport answers a Ping that was processed while Active, with that
\* Ping's payload, so none answers a Ping that came after a Close.
C14_PingPongDroppedWhenNotActive ==
    /\ (PingPongRead("ClosedByUs") \/ PingPongRead("ClosedByPeer")) =>
          last.res = OkNone /\ NoEffect
    /\ \A i \in 1..Len(sent) :
          sent[i].opcode = "Pong" =>
              pre.pings.n >= 1 /\ sent[i].payload = pre.pings.data

\* C14 witness: a Ping was dropped after the peer's Close, the slot stayed empty.
C14_Witness ==
    /\ PingPongRead("ClosedByPeer")
    /\ RxFrame.opcode = "Ping"
    /\ last.res = OkNone
    /\ pong = None

\* C15 as stated: a server in ClosedByUs that receives the peer's Close
\* reaches the Terminated state.
C15_ServerTerminates ==
    (ReadAFrame /\ role = "Server" /\ pre.state = "ClosedByUs" /\ IsGoodClose(RxFrame)) =>
        state = "Terminated"

\* C16: a Close frame received while the state is ClosedByPeer returns no
\* error and has no effect: the state stays ClosedByPeer and nothing is
\* enqueued.
C16_SecondCloseIgnored ==
    (/\ ReadAFrame
     /\ pre.state = "ClosedByPeer"
     /\ IsGoodClose(RxFrame)
     /\ IsUtf8(SubSeq(Logical(RxFrame), 3, Len(RxFrame.payload)))) =>
        /\ last.res = OkNone
        /\ NoEffect
        /\ state = "ClosedByPeer"

\* C16 witness: a second Close with a code found the reply to the first one
\* already written and left the queue empty.
C16_Witness ==
    /\ ReadAFrame
    /\ pre.state = "ClosedByPeer"
    /\ IsGoodClose(RxFrame)
    /\ Logical(RxFrame) = CodeBytes(1001)
    /\ last.res = OkNone
    /\ send_queue = <<>>
    /\ wrote # <<>>

\* The latest step was a write_message.
WroteMessage == last.call = "write_message"

\* The frames pending when the latest operation began, in sending order.
PendingBefore == pre.pong \o pre.send_queue

\* The frame write_message owes for its message: final, of the opcode of
\* the message's kind, with the message's bytes, and the latest enqueued.
OwedFrame ==
    [Frame(TRUE, last.msg[1].kind, last.msg[1].data) EXCEPT !.seq = enq]

\* A frame as it was before send_one_frame gave it a mask.
Unmasked(frame) == [frame EXCEPT !.mask = <<>>]

\* C17: write_message puts exactly one frame, the one owed for its message,
\* behind everything that was pending and runs send_pending: when it
\* returns success the pong slot and the send queue are empty and it has
\* written the pending frames in order and the new frame last; when it
\* fails, what it wrote, the frame whose write failed and what is left in
\* the queue are the pending frames and the new frame, in that order.
C17_WriteMessage ==
    WroteMessage =>
        LET all == Append(PendingBefore, OwedFrame)
            n == Len(all)
        IN  /\ pong = None
            /\ \A i \in 1..Len(sent) : i <= n /\ Unmasked(sent[i]) = all[i]
            /\ IF last.res = Ok
               THEN Len(sent) = n /\ send_queue = <<>>
               ELSE /\ Len(sent) < n
                    /\ send_queue = SubSeq(all, Len(sent) + 2, n)

\* C17 witness: a write_message of a Binary message found a Pong and a
\* reply Close pending and wrote all three, the Binary frame last.
C17_Witness ==
    /\ WroteMessage
    /\ last.res = Ok
    /\ pre.pong # None
    /\ Len(pre.send_queue) = 1
    /\ Len(sent) = 3
    /\ sent[3].opcode = "Binary" /\ sent[3].fin
    /\ sent[3].payload = last.msg[1].data
    /\ send_queue = <<>>

\* C12, the plain path: a Text or Binary frame received while incomplete
\* is set is a protocol error and changes nothing.
PlainInterleavedRejected ==
    (DataRead({"Text", "Binary"}) /\ pre.incomplete # None) =>
        IsProtocolErr(last.res) /\ NoEffect

\* C12, the permessage-deflate path: a Text or Binary frame received while
\* compressed fragments are accumulated is an error and is neither
\* delivered nor added to the fragments.
DeflateInterleavedRejected ==
    (/\ xlast.op = "on_receive_frame"
     /\ xlast.pre.enabled
     /\ xlast.pre.fragments # <<>>
     /\ xlast.input.opcode \in {"Text", "Binary"}) =>
        IsErr(xlast.res) /\ ext.fragments = xlast.pre.fragments

\* C12 as stated: a Text or Binary frame received while a fragmented
\* message is in progress is rejected with an error, on the plain path and
\* on the permessage-deflate path; it is never delivered as a message of
\* its own and never appended to the message in progress.
C12_InterleavedRejected == PlainInterleavedRejected /\ DeflateInterleavedRejected

\* The latest operation of the extension was the negotiation named op on
\* header values that are all text.
Negotiated(op) ==
    /\ xlast.op = op
    /\ \A i \in 1..Len(xlast.input) : xlast.input[i].text

\* The parameters of all the header values of the latest negotiation.
ParamsSeen == Concat([i \in 1..Len(xlast.input) |-> xlast.input[i].params])

\* The words a header value may hold.
KnownWords ==
    {"permessage-deflate", "server_no_context_takeover", "client_no_context_takeover",
     "server_max_window_bits", "client_max_window_bits"}

\* A parameter that is none of the known ones: another word, a known word
\* with more characters behind it, or a value where none belongs.
UnknownParam(param) ==
    \/ param.name \notin KnownWords
    \/ param.more
    \/ param.value # None /\ param.name \notin {"server_max_window_bits",
                                                "client_max_window_bits"}

\* A word occurs twice among the parameters.
Duplicated(params) ==
    \E i, j \in 1..Len(params) : i < j /\ params[i].name = params[j].name

\* The window sizes the valid values of the parameter named word ask for.
WindowsAsked(params, word) ==
    {n \in 9..15 : \E i \in 1..Len(params) :
        /\ params[i].name = word
        /\ ~params[i].more
        /\ params[i].value # None
        /\ ParseU8(Trim(params[i].value[1])) = Some(n)}

\* A window-bits parameter whose value is not a number in [9,15].
BadWindow(params) ==
    \E i \in 1..Len(params) :
        /\ params[i].name \in {"server_max_window_bits", "client_max_window_bits"}
        /\ params[i].value # None
        /\ \A n \in 9..15 : ParseU8(Trim(params[i].value[1])) # Some(n)

\* C18 as stated: an offer with a duplicated parameter, a window-bits value
\* that is not a number in [9,15] or an unknown token is declined: when
\* on_receive_request returns, the extension is not enabled and the
\* response carries no extension header.
C18_BadOfferDeclined ==
    (/\ Negotiated("on_receive_request")
     /\ Len(xlast.input) = 1
     /\ \/ Duplicated(ParamsSeen)
        \/ BadWindow(ParamsSeen)
        \/ \E i \in 1..Len(ParamsSeen) : UnknownParam(ParamsSeen[i])) =>
        /\ ~ext.enabled
        /\ http_response[SEC_WEBSOCKET_EXTENSIONS] = None

\* C19 as stated: a response in which the extension name or a parameter
\* occurs twice, or which holds an unknown parameter, makes on_response
\* return a NegotiationError; on_response returns success only when every
\* token is a known one that occurs at most once.
C19_BadResponseRejected ==
    Negotiated("on_response") =>
        LET bad == \/ Duplicated(ParamsSeen)
                   \/ \E i \in 1..Len(ParamsSeen) : UnknownParam(ParamsSeen[i])
        IN  /\ bad => (IsErr(xlast.res) /\ xlast.res.kind = "Negotiation")
            /\ xlast.res = Ok => ~bad

\* C20 as stated: in an on_response that succeeds, server_max_window_bits=N
\* (N in [9,15], N not the configured maximum) sets up the decoder anew
\* with N and leaves the encoder alone, and client_max_window_bits=N sets
\* up the encoder anew with N and leaves the decoder alone.
C20_WindowBitsReinitialize ==
    (Negotiated("on_response") /\ xlast.res = Ok) =>
        LET server == WindowsAsked(ParamsSeen, "server_max_window_bits")
                          \ {xlast.pre.config.max_window_bits}
            client == WindowsAsked(ParamsSeen, "client_max_window_bits")
                          \ {xlast.pre.config.max_window_bits}
        IN  /\ \A n \in server : ext.inflator = Decompress_new(n)
            /\ \A n \in client : ext.deflator = Compress_new(n)
            /\ server = {} => ext.inflator = xlast.pre.inflator
            /\ client = {} => ext.deflator = xlast.pre.deflator

\* The latest negotiation met the parameter that is exactly word.
Mentions(word) == \E i \in 1..Len(ParamsSeen) : ParamIs(ParamsSeen[i], word)

\* C21: in on_response, server_no_context_takeover sets decompress_reset;
\* client_no_context_takeover sets compress_reset when
\* accept_no_context_takeover is true, and otherwise on_response returns a
\* NegotiationError and compress_reset is not set; a response that
\* mentions neither leaves both flags at their configured values.
C21_ContextTakeoverFlags ==
    xlast.op = "on_response" =>
        LET server == Mentions("server_no_context_takeover")
            client == Mentions("client_no_context_takeover")
            accept == xlast.pre.config.accept_no_context_takeover
        IN  /\ (xlast.res = Ok /\ server) => ext.config.decompress_reset
            /\ (xlast.res = Ok /\ client) => (accept /\ ext.config.compress_reset)
            /\ (client /\ ~accept) =>
                   /\ IsErr(xlast.res) /\ xlast.res.kind = "Negotiation"
                   /\ ext.config.compress_reset = xlast.pre.config.compress_reset
            /\ (~server /\ ~client) =>
                   /\ ext.config.compress_reset = xlast.pre.config.compress_reset
                   /\ ext.config.decompress_reset = xlast.pre.config.decompress_reset

\* An on_response that succeeded on a response with both parameters set
\* both flags, which the configuration had not set.
C21_Witness ==
    /\ xlast.op = "on_response"
    /\ xlast.res = Ok
    /\ Mentions("server_no_context_takeover")
    /\ Mentions("client_no_context_takeover")
    /\ ~xlast.pre.config.compress_reset
    /\ ~xlast.pre.config.decompress_reset
    /\ ext.config.compress_reset
    /\ ext.config.decompress_reset

\* The latest operation of the extension was on_send_frame on frame.
SentFrame == xlast.op = "on_send_frame"

\* What the claim says on_send_frame returns for a data frame when the
\* extension is enabled: rsv1 set, the payload the output of the encoder
\* after a SYNC flush without its last 4 bytes, the rest as it was.
Compressed(x, frame) ==
    LET d == Deflate(x.deflator, frame.payload)
    IN  [frame EXCEPT !.rsv1 = TRUE, !.payload = SubSeq(d.out, 1, Len(d.out) - 4)]

\* C22, for the payloads of at least one byte.
OnSendFrame_NonEmpty ==
    (SentFrame /\ xlast.input.payload # <<>>) =>
        IF xlast.pre.enabled /\ ~IsControl(xlast.input.opcode)
        THEN xlast.res = Ok /\ trip.out = Some(Compressed(xlast.pre, xlast.input))
        ELSE xlast.res = Ok /\ trip.out = Some(xlast.input) /\ ext = xlast.pre

\* C22 as stated: on_send_frame returns a data frame with rsv1 set and with
\* the SYNC-flushed output of the encoder without its last 4 bytes
\* (00 00 FF FF) as the payload when the extension is enabled, and returns
\* the frame and leaves the encoder as they were when the extension is not
\* enabled or the frame is a control frame.
C22_OnSendFrame ==
    SentFrame =>
        IF xlast.pre.enabled /\ ~IsControl(xlast.input.opcode)
        THEN xlast.res = Ok /\ trip.out = Some(Compressed(xlast.pre, xlast.input))
        ELSE xlast.res = Ok /\ trip.out = Some(xlast.input) /\ ext = xlast.pre

\* The latest operation of the extension was on_receive_frame on a frame
\* of the permessage-deflate path.
ReceivedCompressed ==
    /\ xlast.op = "on_receive_frame"
    /\ xlast.pre.enabled
    /\ (xlast.pre.fragments # <<>> \/ xlast.input.rsv1)

\* C23 as stated: with fragments_grow = false the list of the accumulated
\* fragments never holds more than fragments_capacity frames, and a
\* non-final frame that arrives when the list holds fragments_capacity
\* frames fails with the error "Exceeded max fragments." and is not pushed.
C23_FragmentsWithinCapacity ==
    ~ext.config.fragments_grow =>
        /\ Len(ext.fragments) <= ext.config.fragments_capacity
        /\ (/\ ReceivedCompressed
            /\ ~xlast.input.fin
            /\ Len(xlast.pre.fragments) = xlast.pre.config.fragments_capacity) =>
               /\ xlast.res = ErrDeflate("Exceeded max fragments.")
               /\ ext.fragments = xlast.pre.fragments

\* C23, the part the code has: the final Continuation frame that arrives
\* when the list holds fragments_capacity frames fails with the error.
FinalFrameWithinCapacity ==
    (/\ ReceivedCompressed
     /\ ~xlast.pre.config.fragments_grow
     /\ xlast.input.fin
     /\ xlast.input.opcode = "Continue"
     /\ Len(xlast.pre.fragments) = xlast.pre.config.fragments_capacity) =>
        /\ xlast.res = ErrDeflate("Exceeded max fragments.")
        /\ ext.fragments = xlast.pre.fragments

\* The payloads of frames, one after the other.
RECURSIVE PayloadsInOrder(_)
PayloadsInOrder(frames) ==
    IF frames = <<>> THEN <<>> ELSE Head(frames).payload \o PayloadsInOrder(Tail(frames))

\* The latest frame was the final Continuation frame of a compressed
\* message: fragments were accumulated, the first of them a Text or Binary
\* frame with rsv1, and the list had room for the frame.
FinalOfCompressed ==
    /\ ReceivedCompressed
    /\ xlast.input.fin
    /\ xlast.input.opcode = "Continue"
    /\ xlast.pre.fragments # <<>>
    /\ xlast.pre.fragments[1].opcode \in {"Text", "Binary"}
    /\ xlast.pre.fragments[1].rsv1
    /\ ~(/\ ~xlast.pre.config.fragments_grow
         /\ Len(xlast.pre.fragments) = xlast.pre.config.fragments_capacity)

\* What the decoder makes of the fragments and the latest frame, in the
\* order of their arrival, with the trailer once behind them.
Assembled ==
    Inflate(xlast.pre.inflator,
            PayloadsInOrder(Append(xlast.pre.fragments, xlast.input)) \o <<0, 0, 255, 255>>)

SentCompressed ==
    SentFrame /\ xlast.pre.enabled /\ ~IsControl(xlast.input.opcode)

\* The other end, enabled too, has received the frame that came of it.
Tripped ==
    /\ SentCompressed
    /\ trip.got # None
    /\ trip.peer_pre[1].enabled

\* The round trip of the latest message for the frames in frames: the
\* sender returns a frame, the receiver delivers the message that was
\* sent, the encoder is reset after the message exactly when
\* compress_reset is set, and the decoder exactly when decompress_reset is.
RoundTrip(frames) ==
    /\ (SentCompressed /\ xlast.input \in frames) =>
           LET enc == Deflate(xlast.pre.deflator, xlast.input.payload).stream
           IN  /\ xlast.res = Ok
               /\ ext.deflator = IF xlast.pre.config.compress_reset
                                 THEN [enc EXCEPT !.hist = 0] ELSE enc
    /\ (Tripped /\ xlast.input \in frames) =>
           LET dec == Inflate(trip.peer_pre[1].inflator,
                              trip.out[1].payload \o <<0, 0, 255, 255>>).stream
           IN  /\ trip.got[1] = OkMessage(xlast.input.opcode, xlast.input.payload)
               /\ peer.inflator = IF trip.peer_pre[1].config.decompress_reset
                                  THEN [dec EXCEPT !.hist = 0] ELSE dec

\* The sender's compress_reset is the receiver's decompress_reset, as a
\* handshake leaves them.
FlagsAgree == ext.config.compress_reset = peer.config.decompress_reset

\* C25, for the messages of at least one byte between two ends whose flags
\* agree.
RoundTrip_NonEmpty ==
    FlagsAgree => RoundTrip({f \in TripFrames : f.payload # <<>>})

\* C25 as stated, for the combinations of the sender's compress_reset and
\* the receiver's decompress_reset in which the two agree: every sequence
\* of messages makes the round trip, the encoder being reset after each
\* message exactly when compress_reset is set and the decoder exactly when
\* decompress_reset is.
C25_RoundTrip == FlagsAgree => RoundTrip(TripFrames)

\* A loop of the codec has returned Ok(()).
LoopReturned == codec.pc = "done" /\ codec.res = Ok

\* C26, what holds of every turn: the bytes the output vector held before
\* the loop are still at its head, and the loop has returned only with the
\* input consumed to its end and after a call that made no output.
LoopKeepsAndReturns ==
    /\ codec.pc # "idle" =>
           /\ Len(codec.l.output) >= Len(codec.output)
           /\ SubSeq(codec.l.output, 1, Len(codec.output)) = codec.output
    /\ LoopReturned => (codec.l.read_buff = <<>> /\ codec.last_out = 0)

\* C26: the loops of compress and decompress end for every input, with a
\* primitive that makes progress whenever it has input and room; they
\* return only when the input is consumed and the last call made no
\* output; the bytes already in the output vector are kept.
C26_LoopsTerminate ==
    /\ []LoopKeepsAndReturns
    /\ (codec.pc = "loop") ~> (codec.pc = "done")

\* A loop returned after the output vector had to grow and had taken in
\* more bytes than the input had.
C26_Witness ==
    /\ LoopReturned
    /\ codec.l.n = MaxInput
    /\ codec.l.capacity > codec.capacity
    /\ Len(codec.l.output) > Len(codec.output) + MaxInput

\* C27: read_message flushes before it reads.  Whenever read_message is
\* about to decode a frame the pong slot and the send queue are empty; the
\* flush that brought it there has written everything that was pending,
\* the Pong for a Ping and the reply Close for a Close among it, and the
\* frame it then decodes finds nothing pending.
C27_FlushBeforeRead ==
    /\ pc = "rm_read" =>
           /\ pong = None
           /\ send_queue = <<>>
           /\ last.op = "send_pending"
           /\ last.res = Ok
           /\ Len(sent) = Len(PendingBefore)
           /\ \A i \in 1..Len(sent) : Unmasked(sent[i]) = PendingBefore[i]
    /\ (last.call = "read_message" /\ last.op = "read_message_frame") =>
           (pre.pong = None /\ pre.send_queue = <<>>)

\* read_message is about to decode a frame after it has written the reply
\* to the Close it decoded before.
C27_Witness ==
    /\ pc = "rm_read"
    /\ state = "ClosedByPeer"
    /\ Len(sent) = 1
    /\ sent[1].opcode = "Close"
    /\ pre.send_queue # <<>>

\* C28 as stated: the permessage-deflate receive path never panics.  For
\* every data frame handed to on_receive_frame while the extension is
\* enabled, a final Continuation frame with rsv1 and no fragments before it
\* among them, the result is a message, None or an error.
C28_ReceiveNeverPanics ==
    (xlast.op = "on_receive_frame" /\ xlast.pre.enabled) => xlast.res.tag # "Panic"

\* C28, for the messages that begin with a Text or Binary frame: the
\* single final frames and the final frames that find fragments of which
\* the first is a Text or Binary frame.
ReceiveNeverPanics_TextBinary ==
    (/\ xlast.op = "on_receive_frame"
     /\ xlast.pre.enabled
     /\ IF xlast.pre.fragments # <<>> /\ xlast.input.opcode = "Continue"
        THEN xlast.pre.fragments[1].opcode \in {"Text", "Binary"}
        ELSE xlast.input.opcode \in {"Text", "Binary"}) =>
        xlast.res.tag # "Panic"

\* C29: the connection state is monotone.  No step of read_message,
\* write_message or close changes a state that is not Active: ClosedByUs
\* stays ClosedByUs and ClosedByPeer stays ClosedByPeer.
C29_StateMonotone == [][state # "Active" => state' = state]_vars

\* A Close was received after close(), and close() was called after a
\* Close was received, in some order: here the first.
C29_Witness ==
    /\ ReadAFrame
    /\ PassesChecks(RxFrame)
    /\ IsGoodClose(RxFrame)
    /\ pre.state = "ClosedByUs"
    /\ last.res = OkNone
    /\ state = "ClosedByUs"

\* The Close frames a step has enqueued: those in the queue or among the
\* frames written whose enqueue number is above the count before the step.
NewCloses(queue, written, before) ==
    {f \in {queue[i] : i \in 1..Len(queue)} \cup {written[i] : i \in 1..Len(written)} :
        f.seq > before /\ f.opcode = "Close"}

\* C30: over the life of an endpoint at most one reply Close is enqueued.
\* A step enqueues at most one Close, and only as it leaves Active for
\* ClosedByPeer; no step comes back to Active; so a Close received after
\* close(), or after another Close, enqueues none.
C30_OneReplyClose ==
    [][/\ Cardinality(NewCloses(send_queue', sent', enq)) <= 1
       /\ NewCloses(send_queue', sent', enq) # {} =>
              (state = "Active" /\ state' = "ClosedByPeer")
       /\ state' = "Active" => state = "Active"]_vars

\* The peer's second Close found the reply to its first still queued, or
\* written, and added none: the endpoint has enqueued one frame in all.
C30_Witness ==
    /\ ReadAFrame
    /\ PassesChecks(RxFrame)
    /\ IsGoodClose(RxFrame)
    /\ pre.state = "ClosedByPeer"
    /\ last.res = OkNone
    /\ enq = 1
    /\ wrote = <<1>>


\* The length of the encoder's output in the latest on_send_frame: the len
\* of `let len = compressed.len()`.
CompressedLen ==
    Len(Deflator_compress(xlast.pre.deflator, xlast.input.payload,
                          Len(xlast.input.payload)).out)

\* C31, for the payloads of at least one byte.
NoUnderflow_NonEmpty ==
    (SentCompressed /\ xlast.input.payload # <<>>) =>
        (CompressedLen >= 4 /\ xlast.res = Ok)

\* C31 as stated: in on_send_frame the output of the encoder holds at
\* least 4 bytes before the trailer is taken off, so len - 4 does not go
\* below 0, for every payload of a data frame, the empty one included.
C31_NoUnderflow ==
    SentCompressed => (CompressedLen >= 4 /\ xlast.res = Ok)


\* The two ends of a handshake.
ClientEnd == IF role = "Client" THEN ext ELSE peer

ServerEnd == IF role = "Server" THEN ext ELSE peer

\* The handshake is through, and the results of on_receive_request and of
\* on_response.
HandshakeDone ==
    IF role = "Client" THEN xlast.op = "on_response" ELSE trip.peer_op = "on_response"

ServerResult == IF role = "Server" THEN xlast.res ELSE trip.got[1]

ClientResult == IF role = "Client" THEN xlast.res ELSE trip.got[1]

\* C32: after a handshake in which the client's offer of on_make_request
\* is read by the server's on_receive_request and the response by the
\* client's on_response, both returning Ok, both ends have the extension
\* enabled, the server's compress_reset is the client's decompress_reset
\* and the client's compress_reset is the server's decompress_reset, for
\* every request_no_context_takeover and accept_no_context_takeover of
\* each end.
C32_HandshakeAgreement ==
    (HandshakeDone /\ ServerResult = Ok /\ ClientResult = Ok) =>
        /\ ClientEnd.enabled
        /\ ServerEnd.enabled
        /\ ServerEnd.config.compress_reset = ClientEnd.config.decompress_reset
        /\ ClientEnd.config.compress_reset = ServerEnd.config.decompress_reset

\* A handshake in which each end asked the other for no context takeover
\* and each agreed.
C32_Witness ==
    /\ HandshakeDone
    /\ ServerResult = Ok
    /\ ClientResult = Ok
    /\ ClientEnd.config.request_no_context_takeover
    /\ ServerEnd.config.request_no_context_takeover
    /\ ClientEnd.config.compress_reset
    /\ ClientEnd.config.decompress_reset


\* Everything send_pending had to write in the latest step, in sending
\* order: what was pending, and the new frame inside a write_message.
ToWrite == IF WroteMessage THEN Append(PendingBefore, OwedFrame) ELSE PendingBefore

\* The latest send_pending returned the error of a write.
WriteFailed == RanSendPending /\ IsErr(last.res)

\* What holds after a failed write: the frames behind the one whose write
\* failed are pending in their order.
FailedWrite_RestInOrder ==
    WriteFailed =>
        /\ Len(sent) < Len(ToWrite)
        /\ pong \o send_queue = SubSeq(ToWrite, Len(sent) + 2, Len(ToWrite))

\* C33: no outbound frame is lost on a failed write.  When a write fails
\* in send_pending, the frame whose write failed (the Pong of the slot or
\* the head of the queue) is pending afterwards, first to be written by
\* the next send_pending, with the frames behind it in their order.
C33_NoFrameLost ==
    WriteFailed =>
        /\ Len(sent) < Len(ToWrite)
        /\ pong \o send_queue = SubSeq(ToWrite, Len(sent) + 1, Len(ToWrite))


\* A header value of the latest negotiation names the extension: one of
\* its parameters is the token permessage-deflate.
OfferNamesExtension ==
    \E i \in 1..Len(xlast.input) :
        /\ xlast.input[i].text
        /\ \E j \in 1..Len(xlast.input[i].params) :
               ParamIs(xlast.input[i].params[j], "permessage-deflate")

\* The Sec-WebSocket-Extensions value of the response begins with
\* permessage-deflate.
ResponseNamesExtension ==
    /\ http_response[SEC_WEBSOCKET_EXTENSIONS] # None
    /\ http_response[SEC_WEBSOCKET_EXTENSIONS][1] # <<>>
    /\ ParamIs(http_response[SEC_WEBSOCKET_EXTENSIONS][1][1], "permessage-deflate")

\* C34, its last part: a request without a Sec-WebSocket-Extensions header
\* leaves the extension not enabled.
NoOffer_NotEnabled ==
    (xlast.op = "on_receive_request" /\ xlast.input = <<>>) =>
        (~ext.enabled /\ http_response[SEC_WEBSOCKET_EXTENSIONS] = None)

\* C34 as stated: the server enables permessage-deflate only for an offer
\* that names it.  Whenever on_receive_request leaves the extension
\* enabled, a header value of the request held the token
\* permessage-deflate and the Sec-WebSocket-Extensions value written to
\* the response begins with permessage-deflate; a request without the
\* header leaves the extension not enabled.
C34_EnabledOnlyIfNamed ==
    /\ (xlast.op = "on_receive_request" /\ ext.enabled) =>
           (OfferNamesExtension /\ ResponseNamesExtension)
    /\ (xlast.op = "on_receive_request" /\ xlast.input = <<>>) => ~ext.enabled


\* The latest operation was an on_response that returned a
\* NegotiationError.
ResponseFailed ==
    xlast.op = "on_response" /\ IsErr(xlast.res) /\ xlast.res.kind = "Negotiation"

\* C35, for the responses that do not name the extension.
FailedUnnamedResponse_Disabled ==
    (ResponseFailed /\ ~OfferNamesExtension) => ~ext.enabled

\* C35 as stated: a failed negotiation of the client leaves the extension
\* disabled.  Whenever on_response returns a NegotiationError (a parameter
\* twice, an unknown parameter, window bits that are not valid,
\* client_no_context_takeover without accept_no_context_takeover), enabled
\* is false afterwards.
C35_FailedResponseDisabled == ResponseFailed => ~ext.enabled

====
